---- MODULE Spec2Model ----
(***************************************************************************)
(* A model of Fontgardener's glyph repository (src/src/structs.rs and      *)
(* src/src/util.rs): the Fontgarden / Set / Source / Layer tree, the       *)
(* import (merge) and export (assembly) engines and the composite closure. *)
(*                                                                         *)
(* Maps (BTreeMap, HashMap) are TLA+ functions whose DOMAIN is the key     *)
(* set; `new @@ old` is `old.extend(new)` (insert overwrites).  Option<T>  *)
(* is a sequence of length 0 (None) or 1 (Some).                           *)
(***************************************************************************)
EXTENDS Integers, Sequences, FiniteSets, TLC

VARIABLES fontgarden, disk, last, imports, imported, closure, edits, naming

vars == <<fontgarden, disk, last, imports, imported, closure, edits, naming>>

(***************************************************************************)
(* Bounds of the model.                                                    *)
(***************************************************************************)
MaxImports == 2

\* The longest component list of a glyph in the closure machine.
MaxComponents == 2

EmptyMap == [k \in {} |-> 0]

None == << >>

Some(v) == <<v>>

(***************************************************************************)
(* norad::Color.  A colour is modelled by one channel in units of 1/10000; *)
(* to_rgba_string writes a channel with three decimals, so the text        *)
(* encoding is the channel rounded to a multiple of 10.                    *)
(***************************************************************************)
NoMarkColor == -1

Color_from_str(s) == s

to_rgba_string(c) == ((c + 5) \div 10) * 10

(***************************************************************************)
(* The name universes.                                                     *)
(***************************************************************************)
GlyphNames == {"A", "B", "X"}

SetNames == {"Latin", "Punct"}

SourceNames == {"Bold", "Light"}

\* BTreeMap iterates in key order: the set and layer names, sorted.
SetNameOrder == <<"Latin", "Punct">>

LayerNameOrder ==
    <<"A", "A:", "A_", "a", "a:", "a_", "back", "con", "fore", "public.default", "sketch">>

Sorted(keys, order) == SelectSeq(order, LAMBDA k : k \in keys)

\* HashMap iterates in an arbitrary order: every sequence listing keys once.
Orders(keys) ==
    {seq \in [1..Cardinality(keys) -> keys] : {seq[i] : i \in DOMAIN seq} = keys}

(***************************************************************************)
(* External font documents (norad::Font).  layers[1] is the default layer. *)
(* A glyph is [outline, components, markColor, codepoints]; markColor is   *)
(* the raw "public.markColor" lib entry or NoMarkColor.                    *)
(***************************************************************************)
Glyph(o, comps, mark, cps) ==
    [outline |-> o, components |-> comps, markColor |-> mark, codepoints |-> cps]

\* "A" is a composite of "B" in the default layer; "X" lives only in the
\* sketch layer and is a composite of "A".  "A" carries a mark colour
\* with more precision than the text encoding keeps.
DocA ==
    [layers |-> << [name |-> "fore",
                    glyphs |-> ("A" :> Glyph(1, <<"B">>, 5004, <<65>>))
                            @@ ("B" :> Glyph(1, << >>, NoMarkColor, <<66, 98>>))],
                   [name |-> "sketch",
                    glyphs |-> ("X" :> Glyph(1, <<"A">>, NoMarkColor, << >>))] >>,
     postscriptNames |-> ("A" :> "A.ps"),
     openTypeCategories |-> ("B" :> "Base"),
     skipExportGlyphs |-> {"X"}]

\* A later revision: "A" is redrawn without components and without a mark,
\* "X" moved to the default layer and references "A" and a glyph "B" that
\* the document does not hold (a hanging component).
DocB ==
    [layers |-> << [name |-> "fore",
                    glyphs |-> ("A" :> Glyph(2, << >>, NoMarkColor, <<97>>))
                            @@ ("X" :> Glyph(2, <<"A", "B">>, 2500, <<120>>))],
                   [name |-> "back",
                    glyphs |-> ("A" :> Glyph(3, << >>, 7500, << >>))] >>,
     postscriptNames |-> ("X" :> "X.ps"),
     openTypeCategories |-> ("A" :> "Base") @@ ("X" :> "Ligature"),
     skipExportGlyphs |-> {}]

Fonts == {DocA, DocB}

default_layer(font) == font.layers[1]

(***************************************************************************)
(* util.rs: glyphset_follow_composites.  components_in_glyph is a function *)
(* from names to the sequence of component base names (empty for a name    *)
(* without glyph).                                                         *)
(***************************************************************************)
Reverse(s) == [i \in 1..Len(s) |-> s[Len(s) + 1 - i]]

\* A pop that records a new component without following its components.
PopStepNoFollow(stack, discovered, components_in_glyph) ==
    [stack |-> SubSeq(stack, 1, Len(stack) - 1),
     discovered |-> discovered \cup {stack[Len(stack)]}]

\* A turn that follows the components of a name whether or not the name was
\* discovered before.
PopStepFollowAgain(stack, discovered, components_in_glyph) ==
    [stack |-> SubSeq(stack, 1, Len(stack) - 1)
                  \o Reverse(components_in_glyph[stack[Len(stack)]]),
     discovered |-> discovered \cup {stack[Len(stack)]}]

\* One turn of `while let Some(component) = stack.pop()`.
PopStep(stack, discovered, components_in_glyph) ==
    LET component == stack[Len(stack)]
        rest == SubSeq(stack, 1, Len(stack) - 1)
    IN  IF component \in discovered
        THEN [stack |-> rest, discovered |-> discovered]
        ELSE [stack |-> rest \o Reverse(components_in_glyph[component]),
              discovered |-> discovered \cup {component}]

RECURSIVE DrainStack(_, _, _)
DrainStack(stack, discovered, components_in_glyph) ==
    IF stack = << >>
    THEN discovered
    ELSE LET s == PopStep(stack, discovered, components_in_glyph)
         IN  DrainStack(s.stack, s.discovered, components_in_glyph)

RECURSIVE FollowSeeds(_, _, _)
FollowSeeds(todo, discovered, components_in_glyph) ==
    IF todo = {}
    THEN discovered
    ELSE LET name == CHOOSE n \in todo : TRUE
         IN  FollowSeeds(todo \ {name},
                         DrainStack(components_in_glyph[name], discovered,
                                    components_in_glyph),
                         components_in_glyph)

glyphset_follow_composites(import_glyphs, components_in_glyph) ==
    FollowSeeds(import_glyphs, import_glyphs, components_in_glyph)

(***************************************************************************)
(* util.rs: extract_glyph_data.                                            *)
(***************************************************************************)
Lookup(map, key) == IF key \in DOMAIN map THEN Some(map[key]) ELSE None

extract_glyph_data(font, glyphs) ==
    [name \in glyphs |->
        [codepoints |-> IF name \in DOMAIN default_layer(font).glyphs
                        THEN default_layer(font).glyphs[name].codepoints
                        ELSE << >>,
         postscript_name |-> Lookup(font.postscriptNames, name),
         opentype_category |-> IF name \in DOMAIN font.openTypeCategories
                               THEN font.openTypeCategories[name]
                               ELSE "Unassigned",
         export |-> name \notin font.skipExportGlyphs]]

(***************************************************************************)
(* structs.rs: Set, Source, Layer.                                         *)
(***************************************************************************)
Layer(glyphs, color_marks, default) ==
    [glyphs |-> glyphs, color_marks |-> color_marks, default |-> default]

EmptySet == [glyph_data |-> EmptyMap, sources |-> EmptyMap]

glyph_coverage(set) ==
    DOMAIN set.glyph_data
    \cup UNION { UNION { DOMAIN set.sources[s][l].glyphs : l \in DOMAIN set.sources[s] } :
                    s \in DOMAIN set.sources }

new_with_default_layer_name(name) == name :> Layer(EmptyMap, EmptyMap, TRUE)

DefaultLayerCount(source) == Cardinality({l \in DOMAIN source : source[l].default})

\* get_default_layer_mut: the name of the (first) layer flagged default.
DefaultLayerName(source) == CHOOSE l \in DOMAIN source : source[l].default

\* A get_or_create_layer whose new layer claims to be the default one.
LayerOrDefaultFlagged(source, name) ==
    IF name \in DOMAIN source THEN source[name] ELSE Layer(EmptyMap, EmptyMap, TRUE)

\* get_or_create_layer
LayerOrDefault(source, name) ==
    IF name \in DOMAIN source THEN source[name] ELSE Layer(EmptyMap, EmptyMap, FALSE)

from_ufo_layer(layer, glyph_names) ==
    LET kept == DOMAIN layer.glyphs \cap glyph_names
        marked == {n \in kept : layer.glyphs[n].markColor # NoMarkColor}
    IN  Layer([n \in kept |-> [layer.glyphs[n] EXCEPT !.markColor = NoMarkColor]],
              [n \in marked |->
                  Color_from_str(to_rgba_string(Color_from_str(layer.glyphs[n].markColor)))],
              FALSE)

MergeLayer(target_layer, our_layer) ==
    [target_layer EXCEPT !.glyphs = our_layer.glyphs @@ @,
                         !.color_marks = our_layer.color_marks @@ @]

\* The loop over font.iter_layers() of import, from layer i on.
RECURSIVE ImportLayers(_, _, _, _)
ImportLayers(source, font, i, glyph_names) ==
    IF i > Len(font.layers)
    THEN source
    ELSE LET layer == font.layers[i]
             our_layer == from_ufo_layer(layer, glyph_names)
             target == IF i = 1 THEN DefaultLayerName(source) ELSE layer.name
         IN  IF our_layer.glyphs = EmptyMap
             THEN ImportLayers(source, font, i + 1, glyph_names)
             ELSE ImportLayers(
                      (target :> MergeLayer(LayerOrDefault(source, target), our_layer))
                          @@ source,
                      font, i + 1, glyph_names)

\* The expansion loop of import over font.layers, from layer i on.
ComponentsInLayer(layer) ==
    [name \in GlyphNames |->
        IF name \in DOMAIN layer.glyphs THEN layer.glyphs[name].components ELSE << >>]

RECURSIVE ExpandGlyphs(_, _, _)
ExpandGlyphs(font, i, glyphs) ==
    IF i > Len(font.layers)
    THEN glyphs
    ELSE ExpandGlyphs(font, i + 1,
             glyphs \cup glyphset_follow_composites(glyphs,
                                                   ComponentsInLayer(font.layers[i])))

\* A routing that ignores the existing sets: everything goes to set_name.
SetToGlyphsUnrouted(sets, glyphs, set_name) ==
    IF glyphs # {} THEN set_name :> glyphs ELSE EmptyMap

\* A routing that forgets to take the routed glyphs out of the leftovers.
SetToGlyphsKeepLeftovers(sets, glyphs, set_name) ==
    LET hit == {s \in DOMAIN sets : glyph_coverage(sets[s]) \cap glyphs # {}}
        routed == [s \in hit |-> glyph_coverage(sets[s]) \cap glyphs]
    IN  IF glyphs # {} THEN (set_name :> glyphs) @@ routed ELSE routed

\* A routing that enters set_name whether or not glyphs are left over.
SetToGlyphsAlways(sets, glyphs, set_name) ==
    LET hit == {s \in DOMAIN sets : glyph_coverage(sets[s]) \cap glyphs # {}}
        routed == [s \in hit |-> glyph_coverage(sets[s]) \cap glyphs]
    IN  (set_name :> (glyphs \ UNION {routed[s] : s \in hit})) @@ routed

\* The routing table set_to_glyphs of import.
SetToGlyphs(sets, glyphs, set_name) ==
    LET hit == {s \in DOMAIN sets : glyph_coverage(sets[s]) \cap glyphs # {}}
        routed == [s \in hit |-> glyph_coverage(sets[s]) \cap glyphs]
        glyphs_leftovers == glyphs \ UNION {routed[s] : s \in hit}
    IN  IF glyphs_leftovers # {}
        THEN (set_name :> glyphs_leftovers) @@ routed
        ELSE routed

\* A set.sources.insert that starts a new Source on every import.
SourceEntryFresh(set, source_name, font) ==
    new_with_default_layer_name(default_layer(font).name)

\* set.sources.entry(source_name).or_insert_with(new_with_default_layer_name)
SourceEntry(set, source_name, font) ==
    IF source_name \in DOMAIN set.sources
    THEN set.sources[source_name]
    ELSE new_with_default_layer_name(default_layer(font).name)

\* self.sets.entry(set_name).or_default()
SetEntry(sets, set_name) ==
    IF set_name \in DOMAIN sets THEN sets[set_name] ELSE EmptySet

\* One turn of `for (set_name, glyph_names) in set_to_glyphs`.
ImportIntoSet(set, font, glyph_names, source_name, glyph_data) ==
    [glyph_data |-> [n \in glyph_names |-> glyph_data[n]] @@ set.glyph_data,
     sources |-> (source_name :>
                     ImportLayers(SourceEntry(set, source_name, font), font, 1,
                                  glyph_names))
                 @@ set.sources]

import(sets, font, glyphs, set_name, source_name) ==
    LET expanded == ExpandGlyphs(font, 1, glyphs)
        glyph_data == extract_glyph_data(font, expanded)
        set_to_glyphs == SetToGlyphs(sets, expanded, set_name)
    IN  [s \in DOMAIN sets \cup DOMAIN set_to_glyphs |->
            IF s \in DOMAIN set_to_glyphs
            THEN ImportIntoSet(SetEntry(sets, s), font, set_to_glyphs[s],
                               source_name, glyph_data)
            ELSE sets[s]]

\* assert_eq!(source.layers.values().filter(|l| l.default).count(), 1), for
\* every set the import touches.
ImportAssertHolds(sets, font, glyphs, set_name, source_name) ==
    LET set_to_glyphs == SetToGlyphs(sets, ExpandGlyphs(font, 1, glyphs), set_name)
    IN  \A s \in DOMAIN set_to_glyphs :
            DefaultLayerCount(SourceEntry(SetEntry(sets, s), source_name, font)) = 1

(***************************************************************************)
(* structs.rs: assemble_sources and export.  An output document            *)
(* (norad::Font) is its sequence of layers [name, glyphs], the first being *)
(* the default layer.                                                      *)
(***************************************************************************)
\* Source::default()
SourceDefault == new_with_default_layer_name("public.default")

\* norad::Font::default()
FontDefault == << [name |-> "public.default", glyphs |-> EmptyMap] >>

\* The inner loop of assemble_sources over source.layers.
AssembleSource(assembled_source, source) ==
    [l \in DOMAIN assembled_source \cup DOMAIN source |->
        IF l \in DOMAIN source
        THEN LET assembled_layer == LayerOrDefault(assembled_source, l)
             IN  Layer(source[l].glyphs @@ assembled_layer.glyphs,
                       source[l].color_marks @@ assembled_layer.color_marks,
                       source[l].default)
        ELSE assembled_source[l]]

\* The loop of assemble_sources over self.sets.values(), from set i on.
RECURSIVE AssembleSets(_, _, _, _)
AssembleSets(assembled, sets, set_names, source_names) ==
    IF set_names = << >>
    THEN assembled
    ELSE LET set == sets[Head(set_names)]
             wanted == DOMAIN set.sources \cap source_names
         IN  AssembleSets(
                 [n \in DOMAIN assembled \cup wanted |->
                     IF n \in wanted
                     THEN AssembleSource(IF n \in DOMAIN assembled
                                         THEN assembled[n] ELSE SourceDefault,
                                         set.sources[n])
                     ELSE assembled[n]],
                 sets, Tail(set_names), source_names)

assemble_sources(sets, source_names) ==
    AssembleSets(EmptyMap, sets, Sorted(DOMAIN sets, SetNameOrder), source_names)

\* The closing loop of export over one source's layers, in key order.
RECURSIVE CloseOverLayers(_, _, _)
CloseOverLayers(source, layer_names, glyph_names) ==
    IF layer_names = << >>
    THEN glyph_names
    ELSE CloseOverLayers(source, Tail(layer_names),
             glyph_names \cup glyphset_follow_composites(
                                 glyph_names,
                                 ComponentsInLayer(source[Head(layer_names)])))

\* The closing loop of export over sources.values(): a HashMap, visited in
\* the order source_order.
RECURSIVE ExportGlyphNames(_, _, _)
ExportGlyphNames(sources, source_order, glyph_names) ==
    IF source_order = << >>
    THEN glyph_names
    ELSE ExportGlyphNames(sources, Tail(source_order),
             CloseOverLayers(sources[Head(source_order)],
                             Sorted(DOMAIN sources[Head(source_order)], LayerNameOrder),
                             glyph_names))

\* The retain calls of export on one layer.
\* A prune that takes the glyphs out and leaves their colour marks.
PruneLayerGlyphsOnly(layer, glyph_names) ==
    Layer([n \in DOMAIN layer.glyphs \cap glyph_names |-> layer.glyphs[n]],
          layer.color_marks,
          layer.default)

PruneLayer(layer, glyph_names) ==
    Layer([n \in DOMAIN layer.glyphs \cap glyph_names |-> layer.glyphs[n]],
          [n \in DOMAIN layer.color_marks \cap glyph_names |-> layer.color_marks[n]],
          layer.default)

PruneSources(sources, glyph_names) ==
    [s \in DOMAIN sources |->
        [l \in DOMAIN sources[s] |-> PruneLayer(sources[s][l], glyph_names)]]

\* An export that leaves the colour mark out of the glyph.
export_glyphUnmarked(layer, name) == layer.glyphs[name]

\* Layer::into_ufo_layer (and export_glyph): the glyphs with their colour
\* marks written back into the glyph's lib.
export_glyph(layer, name) ==
    IF name \in DOMAIN layer.color_marks
    THEN [layer.glyphs[name] EXCEPT !.markColor = to_rgba_string(layer.color_marks[name])]
    ELSE layer.glyphs[name]

into_ufo_layer(layer, ufo_layer) ==
    [ufo_layer EXCEPT
        !.glyphs = [n \in DOMAIN layer.glyphs |-> export_glyph(layer, n)] @@ @]

UfoLayerIndex(ufo, layer_name) ==
    {i \in 1..Len(ufo) : ufo[i].name = layer_name}

\* One turn of `for (layer_name, layer) in source.layers` of export.
EmitLayer(ufo, layer_name, layer) ==
    IF layer.glyphs = EmptyMap
    THEN ufo
    ELSE IF layer.default
    THEN [ufo EXCEPT ![1] = [into_ufo_layer(layer, ufo[1]) EXCEPT !.name = layer_name]]
    ELSE IF UfoLayerIndex(ufo, layer_name) # {}
    THEN LET i == CHOOSE j \in UfoLayerIndex(ufo, layer_name) : TRUE
         IN  [ufo EXCEPT ![i] = into_ufo_layer(layer, ufo[i])]
    ELSE Append(ufo, into_ufo_layer(layer, [name |-> layer_name, glyphs |-> EmptyMap]))

RECURSIVE EmitLayers(_, _, _)
EmitLayers(ufo, source, layer_names) ==
    IF layer_names = << >>
    THEN ufo
    ELSE EmitLayers(EmitLayer(ufo, Head(layer_names), source[Head(layer_names)]),
                    source, Tail(layer_names))

\* rename_layer(..., overwrite = false).unwrap() of export panics when the
\* default layer is renamed to the name of another layer of the document.
RECURSIVE RenameClash(_, _, _)
RenameClash(ufo, source, layer_names) ==
    IF layer_names = << >>
    THEN FALSE
    ELSE LET layer_name == Head(layer_names)
             layer == source[layer_name]
         IN  \/ /\ layer.glyphs # EmptyMap
                /\ layer.default
                /\ layer_name # ufo[1].name
                /\ UfoLayerIndex(ufo, layer_name) # {}
             \/ RenameClash(EmitLayer(ufo, layer_name, layer), source, Tail(layer_names))

\* The assembled sources of export after its closing and pruning steps.
PrunedSources(sets, glyph_names, source_names, source_order) ==
    LET assembled == assemble_sources(sets, source_names)
    IN  PruneSources(assembled,
                     ExportGlyphNames(assembled, source_order, glyph_names))

ExportPanics(sets, glyph_names, source_names, source_order) ==
    LET sources == PrunedSources(sets, glyph_names, source_names, source_order)
    IN  \E s \in DOMAIN sources :
            RenameClash(FontDefault, sources[s],
                        Sorted(DOMAIN sources[s], LayerNameOrder))

export(sets, glyph_names, source_names, source_order) ==
    LET sources == PrunedSources(sets, glyph_names, source_names, source_order)
    IN  [s \in DOMAIN sources |->
            EmitLayers(FontDefault, sources[s],
                       Sorted(DOMAIN sources[s], LayerNameOrder))]

(***************************************************************************)
(* Text.  A string the code takes apart (a file name, a path, a CSV field  *)
(* of code points) is a sequence of one-character strings.  Chars gives    *)
(* the characters of the names of the model (Name::as_str), Name_new is    *)
(* the way back (Name::new of a file-name part), None for a text that is   *)
(* not one of the model's names.                                           *)
(***************************************************************************)
\* A text of n times the character c.
Repeat(c, n) == [i \in 1..n |-> c]

\* The two bytes of a character that takes two bytes in UTF-8 (e-acute), as a
\* String holds it: a leading byte and a continuation byte.
TwoBytes == <<"0xC3", "0xA9">>

\* Names that are, or are close to, reserved device names.
ReservedChars ==
    ("com1" :> <<"c", "o", "m", "1">>) @@ ("lpt9" :> <<"l", "p", "t", "9">>)
    @@ ("nul" :> <<"n", "u", "l">>)
    @@ ("con.alt" :> <<"c", "o", "n", ".", "a", "l", "t">>)
    @@ ("Con" :> <<"C", "o", "n">>) @@ ("CON" :> <<"C", "O", "N">>)
    @@ ("com10" :> <<"c", "o", "m", "1", "0">>)
    @@ ("acom1" :> <<"a", "c", "o", "m", "1">>)
    @@ (".con" :> <<".", "c", "o", "n">>)

\* Names about as long as a file name may be.
LongChars ==
    ("a246" :> Repeat("a", 246)) @@ ("a248" :> Repeat("a", 248))
    @@ ("a249" :> Repeat("a", 249)) @@ ("a250" :> Repeat("a", 250))
    @@ ("a251" :> Repeat("a", 251)) @@ ("A126" :> Repeat("A", 126))
    @@ ("con.a246" :> <<"c", "o", "n", ".">> \o Repeat("a", 246))
    @@ ("a249e" :> Repeat("a", 249) \o TwoBytes)
    @@ ("a247e" :> Repeat("a", 247) \o TwoBytes)
    @@ ("a245ea" :> Repeat("a", 245) \o TwoBytes \o <<"a">>)

Chars ==
    ReservedChars @@ LongChars @@
    ("A" :> <<"A">>) @@ ("B" :> <<"B">>) @@ ("X" :> <<"X">>)
    @@ ("Latin" :> <<"L", "a", "t", "i", "n">>)
    @@ ("Punct" :> <<"P", "u", "n", "c", "t">>)
    @@ ("Bold" :> <<"B", "o", "l", "d">>)
    @@ ("Light" :> <<"L", "i", "g", "h", "t">>)
    @@ ("fore" :> <<"f", "o", "r", "e">>)
    @@ ("back" :> <<"b", "a", "c", "k">>)
    @@ ("sketch" :> <<"s", "k", "e", "t", "c", "h">>)
    @@ ("public.default" :>
            <<"p", "u", "b", "l", "i", "c", ".", "d", "e", "f", "a", "u", "l", "t">>)
    @@ ("a" :> <<"a">>) @@ ("a_" :> <<"a", "_">>) @@ ("a:" :> <<"a", ":">>)
    @@ ("A_" :> <<"A", "_">>) @@ ("A:" :> <<"A", ":">>)
    @@ ("con" :> <<"c", "o", "n">>)

Name_new(text) ==
    IF \E n \in DOMAIN Chars : Chars[n] = text
    THEN Some(CHOOSE n \in DOMAIN Chars : Chars[n] = text)
    ELSE None

\* BTreeMap order of the glyph names.
GlyphNameOrder == <<"A", "A:", "A_", "B", "X", "a", "a:", "a_", "con">>

SourceNameOrder == <<"Bold", "Light">>

UpperCase ==
    <<"A", "B", "C", "D", "E", "F", "G", "H", "I", "J", "K", "L", "M",
      "N", "O", "P", "Q", "R", "S", "T", "U", "V", "W", "X", "Y", "Z">>

LowerCase ==
    <<"a", "b", "c", "d", "e", "f", "g", "h", "i", "j", "k", "l", "m",
      "n", "o", "p", "q", "r", "s", "t", "u", "v", "w", "x", "y", "z">>

is_uppercase(c) == \E i \in DOMAIN UpperCase : UpperCase[i] = c

to_lowercase(text) ==
    [i \in 1..Len(text) |->
        IF is_uppercase(text[i])
        THEN LowerCase[CHOOSE j \in DOMAIN UpperCase : UpperCase[j] = text[i]]
        ELSE text[i]]

starts_with(text, prefix) ==
    Len(text) >= Len(prefix) /\ SubSeq(text, 1, Len(prefix)) = prefix

strip_prefix(text, prefix) ==
    IF starts_with(text, prefix)
    THEN Some(SubSeq(text, Len(prefix) + 1, Len(text)))
    ELSE None

\* Path::join and to_string_lossy
PathJoin(path, file_name) == path \o <<"/">> \o file_name

\* Path::extension: the text after the last period of the file name, None
\* when there is no period but a leading one.
Extension(file_name) ==
    LET dots == {i \in 2..Len(file_name) : file_name[i] = "."}
    IN  IF dots = {}
        THEN None
        ELSE Some(SubSeq(file_name,
                         (CHOOSE i \in dots : \A j \in dots : j <= i) + 1,
                         Len(file_name)))

Str_set == <<"s", "e", "t", ".">>

Str_source == <<"s", "o", "u", "r", "c", "e", ".">>

Str_glyphs == <<"g", "l", "y", "p", "h", "s">>

Str_glyphs_dot == <<"g", "l", "y", "p", "h", "s", ".">>

Str_glif == <<"g", "l", "i", "f">>

Str_dot_glif == <<".", "g", "l", "i", "f">>

Str_glyph_data_csv ==
    <<"g", "l", "y", "p", "h", "_", "d", "a", "t", "a", ".", "c", "s", "v">>

Str_color_marks_csv ==
    <<"c", "o", "l", "o", "r", "_", "m", "a", "r", "k", "s", ".", "c", "s", "v">>

Str_layerinfo_plist ==
    <<"l", "a", "y", "e", "r", "i", "n", "f", "o", ".", "p", "l", "i", "s", "t">>

(***************************************************************************)
(* util.rs: user_name_to_file_name.                                        *)
(***************************************************************************)
SPECIAL_ILLEGAL ==
    {":", "?", "\"", "(", ")", "[", "]", "*", "/", "\\", "+", "<", ">", "|"}

SPECIAL_RESERVED ==
    {<<"c", "o", "n">>, <<"p", "r", "n">>, <<"a", "u", "x">>, <<"n", "u", "l">>}
    \cup {<<"c", "o", "m", d>> : d \in {"1", "2", "3", "4", "5", "6", "7", "8", "9"}}
    \cup {<<"l", "p", "t", d>> : d \in {"1", "2", "3", "4", "5", "6", "7", "8", "9"}}

MAX_LEN == 255

NUMBER_LEN == 2

Digits == <<"0", "1", "2", "3", "4", "5", "6", "7", "8", "9",
            "A", "B", "C", "D", "E", "F">>

\* What one round of the loop `for c in name.chars()` pushes; `initial`
\* tells whether the result is empty, which it is only before the first
\* character of a name without a prefix.
PushChar(c, initial) ==
    IF c = "." /\ initial THEN <<"_">>
    ELSE IF c \in SPECIAL_ILLEGAL THEN <<"_">>
    ELSE IF is_uppercase(c) THEN <<c, "_">>
    ELSE <<c>>

\* What the rounds first..final of the loop push, put together by halves.
RECURSIVE PushChars(_, _, _, _)
PushChars(chars, first, final, initial) ==
    IF first > final THEN << >>
    ELSE IF first = final THEN PushChar(chars[first], initial /\ first = 1)
    ELSE LET middle == (first + final) \div 2
         IN  PushChars(chars, first, middle, initial)
                \o PushChars(chars, middle + 1, final, initial)

\* The loop `for c in name.chars()` of user_name_to_file_name.
PushName(result, chars) ==
    result \o PushChars(chars, 1, Len(chars), result = << >>)

\* result.split('.').next()
Stem(result) ==
    LET dots == {i \in 1..Len(result) : result[i] = "."}
    IN  IF dots = {}
        THEN result
        ELSE SubSeq(result, 1, (CHOOSE i \in dots : \A j \in dots : i <= j) - 1)

\* A test for reserved names that compares the whole of the name.
ReserveWholeName(result) ==
    IF result \in SPECIAL_RESERVED THEN <<"_">> \o result ELSE result

Reserve(result) ==
    IF Stem(result) \in SPECIAL_RESERVED THEN <<"_">> \o result ELSE result

saturating_sub(a, b) == IF a > b THEN a - b ELSE 0

\* str::is_char_boundary: the start, the end, and every index whose byte is
\* not a continuation byte (the byte at index i is result[i + 1]).
is_char_boundary(result, index) ==
    \/ index = 0
    \/ index = Len(result)
    \/ index < Len(result) /\ result[index + 1] # TwoBytes[2]

\* while !result.is_char_boundary(boundary) { boundary -= 1; }
CharBoundary(result, boundary) ==
    CHOOSE b \in 0..boundary :
        /\ is_char_boundary(result, b)
        /\ \A c \in (b + 1)..boundary : ~is_char_boundary(result, c)

\* Clip prefix + name to 255 characters.
Clip(result, suffix) ==
    IF Len(result) + Len(suffix) > MAX_LEN
    THEN SubSeq(result, 1, CharBoundary(result, saturating_sub(MAX_LEN, Len(suffix))))
    ELSE result

\* Replace trailing periods and spaces by underscores unless there is a
\* suffix.
TrailingUnderscores(result, suffix) ==
    IF suffix = << >>
    THEN [i \in 1..Len(result) |->
            IF \A j \in i..Len(result) : result[j] \in {".", " "}
            THEN "_" ELSE result[i]]
    ELSE result

\* format!("{:0>2}", counter)
Format02(counter) == <<Digits[(counter \div 10) + 1], Digits[(counter % 10) + 1]>>

\* The file name before the test for clashes.
FileNameUnnumbered(name, prefix, suffix) ==
    LET result == Clip(Reserve(PushName(prefix, Chars[name])), suffix)
    IN  TrailingUnderscores(result, suffix) \o suffix

\* The stem the counter is appended to.
FileNameCut(result, suffix) ==
    IF saturating_sub(Len(result), Len(suffix)) + NUMBER_LEN > MAX_LEN
    THEN SubSeq(result, 1,
                CharBoundary(result,
                    saturating_sub(saturating_sub(MAX_LEN, Len(suffix)), NUMBER_LEN)))
    ELSE SubSeq(result, 1, saturating_sub(Len(result), Len(suffix)))

\* The counters 1..99 that give a name not in `existing`.
FreeCounters(result, suffix, existing) ==
    {counter \in 1..99 :
        to_lowercase(FileNameCut(result, suffix) \o Format02(counter) \o suffix)
            \notin existing}

\* panic!("Could not find a unique file name after 99 tries")
FileNamePanics(name, prefix, suffix, existing) ==
    LET result == FileNameUnnumbered(name, prefix, suffix)
    IN  to_lowercase(result) \in existing /\ FreeCounters(result, suffix, existing) = {}

user_name_to_file_name(name, prefix, suffix, existing) ==
    LET result == FileNameUnnumbered(name, prefix, suffix)
        free == FreeCounters(result, suffix, existing)
    IN  IF to_lowercase(result) \in existing
        THEN FileNameCut(result, suffix)
                \o Format02(CHOOSE c \in free : \A d \in free : c <= d)
                \o suffix
        ELSE result

default_file_name_for_glyph_name(name, existing) ==
    user_name_to_file_name(name, << >>, Str_dot_glif, existing)

default_file_name_for_layer_name(name, existing) ==
    user_name_to_file_name(name, Str_glyphs_dot, << >>, existing)

(***************************************************************************)
(* The file system.  A node is a directory (its entries: a map from file   *)
(* names to nodes), a file with its content, or NoPath where nothing       *)
(* exists.  File names are compared exactly (a case-sensitive file         *)
(* system).  create_dir fails when the name is taken; a file written under *)
(* a taken name replaces the old file.                                     *)
(***************************************************************************)
NoPath == [kind |-> "none"]

Dir(entries) == [kind |-> "dir", entries |-> entries]

File(content) == [kind |-> "file", content |-> content]

is_dir(node) == node.kind = "dir"

is_file(node) == node.kind = "file"

\* The result of a save step: err is None or Some(error), entries what the
\* directory holds afterwards.
Saved(err, entries) == [err |-> err, entries |-> entries]

(***************************************************************************)
(* structs.rs: the CSV files.  A row is a tuple of fields; the code-point  *)
(* field is a text of hexadecimal numbers, the other fields are kept as    *)
(* written (an absent Option is the empty field).                          *)
(***************************************************************************)
RECURSIVE ToHex(_)
ToHex(n) ==
    IF n < 16 THEN <<Digits[n + 1]>> ELSE ToHex(n \div 16) \o <<Digits[(n % 16) + 1]>>

\* format!("{:04X}", c as usize)
Format04X(n) ==
    LET hex == ToHex(n)
    IN  [i \in 1..saturating_sub(4, Len(hex)) |-> "0"] \o hex

\* .collect::<Vec<_>>().join(" ")
RECURSIVE JoinSpace(_)
JoinSpace(texts) ==
    IF texts = << >> THEN << >>
    ELSE IF Len(texts) = 1 THEN texts[1]
    ELSE texts[1] \o <<" ">> \o JoinSpace(Tail(texts))

\* char::is_whitespace, for the characters of the model's texts.
is_whitespace(c) == c \in {" ", "\t", "\n"}

\* str::split_whitespace
RECURSIVE split_whitespace(_, _)
split_whitespace(text, word) ==
    IF text = << >>
    THEN IF word = << >> THEN << >> ELSE <<word>>
    ELSE IF is_whitespace(Head(text))
    THEN (IF word = << >> THEN << >> ELSE <<word>>)
            \o split_whitespace(Tail(text), << >>)
    ELSE split_whitespace(Tail(text), Append(word, Head(text)))

\* The value of a hexadecimal digit, 16 for any other character.
DigitValue(c) ==
    LET c_upper == IF \E j \in DOMAIN LowerCase : LowerCase[j] = c
                   THEN UpperCase[CHOOSE j \in DOMAIN LowerCase : LowerCase[j] = c]
                   ELSE c
    IN  IF \E i \in DOMAIN Digits : Digits[i] = c_upper
        THEN (CHOOSE i \in DOMAIN Digits : Digits[i] = c_upper) - 1
        ELSE 16

\* u32::from_str_radix(codepoint, 16) then char::try_from: None on an error.
RECURSIVE HexValue(_, _)
HexValue(text, value) ==
    IF text = << >>
    THEN value
    ELSE HexValue(Tail(text), value * 16 + DigitValue(Head(text)))

\* The digits without their leading zeros.
RECURSIVE StripZeros(_)
StripZeros(digits) ==
    IF digits # << >> /\ Head(digits) = "0" THEN StripZeros(Tail(digits)) ELSE digits

\* from_str_radix takes an optional + sign before the digits.
SignedDigits(text) ==
    IF text # << >> /\ Head(text) = "+" THEN Tail(text) ELSE text

\* More than eight significant digits overflow the u32; a value above
\* 10FFFF or in D800..DFFF is no char.
parse_codepoint(text) ==
    LET digits == SignedDigits(text)
    IN  IF \/ digits = << >>
           \/ \E i \in DOMAIN digits : DigitValue(digits[i]) = 16
           \/ Len(StripZeros(digits)) > 8
        THEN None
        ELSE LET value == HexValue(StripZeros(digits), 0)
             IN  IF value > 1114111 \/ value \in 55296..57343
                 THEN None
                 ELSE Some(value)

\* The loop of Set::parse_codepoints: repeated code points are dropped.
RECURSIVE DropSeen(_, _)
DropSeen(codepoints, seen) ==
    IF codepoints = << >>
    THEN << >>
    ELSE IF Head(codepoints) \in seen
    THEN DropSeen(Tail(codepoints), seen)
    ELSE <<Head(codepoints)>> \o DropSeen(Tail(codepoints), seen \cup {Head(codepoints)})

\* Set::parse_codepoints: None on an error.
parse_codepoints(v) ==
    LET words == split_whitespace(v, << >>)
    IN  IF \E i \in DOMAIN words : parse_codepoint(words[i]) = None
        THEN None
        ELSE Some(DropSeen([i \in DOMAIN words |-> parse_codepoint(words[i])[1]], {}))

OpenTypeCategories == {"Unassigned", "Base", "Ligature", "Mark", "Component"}

\* One row of Set::write_glyph_data.
GlyphDataRow(glyph_name, record) ==
    <<glyph_name,
      IF record.postscript_name = None THEN "" ELSE record.postscript_name[1],
      JoinSpace([i \in DOMAIN record.codepoints |-> Format04X(record.codepoints[i])]),
      record.opentype_category,
      IF record.export THEN "true" ELSE "false">>

write_glyph_data(glyph_data) ==
    LET names == Sorted(DOMAIN glyph_data, GlyphNameOrder)
    IN  File([format |-> "csv",
              header |-> <<"name", "postscript_name", "codepoints",
                           "opentype_category", "export">>,
              rows |-> [i \in DOMAIN names |-> GlyphDataRow(names[i], glyph_data[names[i]])]])

\* The error of one row of Set::load_glyph_data, None for a good row.
GlyphDataRowError(row) ==
    IF Len(row) # 5 \/ row[5] \notin {"true", "false"}
    THEN Some([kind |-> "Csv"])
    ELSE IF row[1] \notin DOMAIN Chars
    THEN Some([kind |-> "InvalidGlyphName"])
    ELSE IF parse_codepoints(row[3]) = None
    THEN Some([kind |-> "InvalidCodepoint", name |-> row[1], text |-> row[3]])
    ELSE IF row[4] # "" /\ row[4] \notin OpenTypeCategories
    THEN Some([kind |-> "InvalidOpenTypeCategory", name |-> row[1]])
    ELSE None

GlyphDataRecord(row) ==
    [postscript_name |-> IF row[2] = "" THEN None ELSE Some(row[2]),
     codepoints |-> parse_codepoints(row[3])[1],
     opentype_category |-> IF row[4] = "" THEN "Unassigned" ELSE row[4],
     export |-> row[5] = "true"]

\* The loop of Set::load_glyph_data over the rows: a later row replaces an
\* earlier one of the same name.
RECURSIVE LoadRows(_, _)
LoadRows(rows, glyph_data) ==
    IF rows = << >>
    THEN [err |-> None, value |-> glyph_data]
    ELSE IF GlyphDataRowError(Head(rows)) # None
    THEN [err |-> GlyphDataRowError(Head(rows)), value |-> EmptyMap]
    ELSE LoadRows(Tail(rows),
                  (Head(rows)[1] :> GlyphDataRecord(Head(rows))) @@ glyph_data)

\* Set::load_glyph_data of the directory entries of a set.
load_glyph_data(entries) ==
    IF \/ Str_glyph_data_csv \notin DOMAIN entries
       \/ ~is_file(entries[Str_glyph_data_csv])
       \/ entries[Str_glyph_data_csv].content.format # "csv"
    THEN [err |-> Some([kind |-> "Csv"]), value |-> EmptyMap]
    ELSE LoadRows(entries[Str_glyph_data_csv].content.rows, EmptyMap)

write_color_marks(color_marks) ==
    LET names == Sorted(DOMAIN color_marks, GlyphNameOrder)
    IN  File([format |-> "csv",
              header |-> <<"name", "color">>,
              rows |-> [i \in DOMAIN names |->
                          <<names[i], to_rgba_string(color_marks[names[i]])>>]])

\* Layer::load_color_marks: an absent file gives no marks.
load_color_marks(entries) ==
    IF Str_color_marks_csv \notin DOMAIN entries
    THEN [err |-> None, value |-> EmptyMap]
    ELSE LET file == entries[Str_color_marks_csv]
         IN  IF \/ ~is_file(file)
                \/ file.content.format # "csv"
                \/ \E i \in DOMAIN file.content.rows :
                      \/ Len(file.content.rows[i]) # 2
                      \/ file.content.rows[i][1] \notin DOMAIN Chars
             THEN [err |-> Some([kind |-> "Csv"]), value |-> EmptyMap]
             ELSE [err |-> None,
                   value |-> [n \in {file.content.rows[i][1] :
                                        i \in DOMAIN file.content.rows} |->
                       LET last_row == CHOOSE i \in DOMAIN file.content.rows :
                               /\ file.content.rows[i][1] = n
                               /\ \A j \in DOMAIN file.content.rows :
                                     file.content.rows[j][1] = n => j <= i
                       IN  Color_from_str(file.content.rows[last_row][2])]]

(***************************************************************************)
(* structs.rs: save.                                                       *)
(***************************************************************************)
\* The loop of Layer::save over self.glyphs: one file per glyph.
RECURSIVE SaveGlyphs(_, _, _, _)
SaveGlyphs(layer, glyph_names, entries, existing_glyph_names) ==
    IF glyph_names = << >>
    THEN entries
    ELSE LET glyph_name == Head(glyph_names)
             filename == default_file_name_for_glyph_name(glyph_name,
                                                          existing_glyph_names)
         IN  SaveGlyphs(layer, Tail(glyph_names),
                        (filename :> File([format |-> "glif",
                                           name |-> glyph_name,
                                           glyph |-> layer.glyphs[glyph_name]]))
                            @@ entries,
                        existing_glyph_names \cup {filename})

\* The directory of a layer: layerinfo.plist, the glyph files and
\* color_marks.csv.
LayerFiles(layer, layer_name) ==
    (Str_color_marks_csv :> write_color_marks(layer.color_marks))
    @@ SaveGlyphs(layer, Sorted(DOMAIN layer.glyphs, GlyphNameOrder),
                  Str_layerinfo_plist :> File([format |-> "plist", name |-> layer_name]),
                  {})

\* Layer::save from create_dir on, the directory's name being file_name.
LayerSaveAs(layer, layer_name, file_name, source_entries) ==
    IF file_name \in DOMAIN source_entries
    THEN Saved(Some([kind |-> "CreateDir"]), source_entries)
    ELSE Saved(None, (file_name :> Dir(LayerFiles(layer, layer_name))) @@ source_entries)

\* The name of the directory Layer::save writes a layer to.
LayerFileName(layer, layer_name, existing_layer_names) ==
    IF layer.default
    THEN Str_glyphs
    ELSE default_file_name_for_layer_name(layer_name, existing_layer_names)

\* Layer::save into a source directory holding source_entries.
Layer_save(layer, layer_name, source_path, source_entries, existing_layer_names) ==
    IF layer.glyphs = EmptyMap
    THEN Saved(None, source_entries)
    ELSE LayerSaveAs(layer, layer_name,
                     LayerFileName(layer, layer_name, existing_layer_names),
                     source_entries)

\* existing_layer_names after Layer::save: the path of a directory made for
\* a layer that is not the default one is added.
ExistingLayerNames(layer, layer_name, source_path, existing_layer_names) ==
    IF layer.glyphs = EmptyMap \/ layer.default
    THEN existing_layer_names
    ELSE existing_layer_names
            \cup {PathJoin(source_path,
                           LayerFileName(layer, layer_name, existing_layer_names))}

\* The error `r` of saving the entry `name`, wrapped by map_err.
SaveError(r, kind, name) ==
    Saved(Some([kind |-> kind, name |-> name, cause |-> r.err[1]]), r.entries)

\* The loop of Source::save over self.layers; SaveLayersNext is the loop
\* after the save `r` of its first layer.
RECURSIVE SaveLayers(_, _, _, _, _)
RECURSIVE SaveLayersNext(_, _, _, _, _)
SaveLayers(source, layer_names, source_path, source_entries, existing_layer_names) ==
    IF layer_names = << >>
    THEN Saved(None, source_entries)
    ELSE SaveLayersNext(Layer_save(source[Head(layer_names)], Head(layer_names),
                                   source_path, source_entries, existing_layer_names),
                        source, layer_names, source_path,
                        ExistingLayerNames(source[Head(layer_names)],
                                           Head(layer_names), source_path,
                                           existing_layer_names))

SaveLayersNext(r, source, layer_names, source_path, existing_layer_names) ==
    IF r.err # None
    THEN SaveError(r, "SaveLayer", Head(layer_names))
    ELSE SaveLayers(source, Tail(layer_names), source_path, r.entries,
                    existing_layer_names)

\* A directory `file_name` made in a directory holding `entries` and filled
\* as `r` tells; create_dir fails when the name is taken.
SavedDir(file_name, entries, r) ==
    IF file_name \in DOMAIN entries
    THEN Saved(Some([kind |-> "CreateDir"]), entries)
    ELSE Saved(r.err, (file_name :> Dir(r.entries)) @@ entries)

\* Source::save into a set directory holding set_entries.
Source_save(source, source_name, set_path, set_entries) ==
    SavedDir(Str_source \o Chars[source_name], set_entries,
             SaveLayers(source, Sorted(DOMAIN source, LayerNameOrder),
                        PathJoin(set_path, Str_source \o Chars[source_name]),
                        EmptyMap, {}))

\* The loop of Set::save over self.sources; SaveSourcesNext is the loop
\* after the save `r` of its first source.
RECURSIVE SaveSources(_, _, _, _)
RECURSIVE SaveSourcesNext(_, _, _, _)
SaveSources(set, source_names, set_path, set_entries) ==
    IF source_names = << >>
    THEN Saved(None, set_entries)
    ELSE SaveSourcesNext(Source_save(set.sources[Head(source_names)],
                                     Head(source_names), set_path, set_entries),
                         set, source_names, set_path)

SaveSourcesNext(r, set, source_names, set_path) ==
    IF r.err # None
    THEN SaveError(r, "SaveSource", Head(source_names))
    ELSE SaveSources(set, Tail(source_names), set_path, r.entries)

\* Set::save into the root directory holding root_entries.
Set_save(set, set_name, root_path, root_entries) ==
    SavedDir(Str_set \o Chars[set_name], root_entries,
             SaveSources(set, Sorted(DOMAIN set.sources, SourceNameOrder),
                         PathJoin(root_path, Str_set \o Chars[set_name]),
                         Str_glyph_data_csv :> write_glyph_data(set.glyph_data)))

\* The loop of Fontgarden::save over self.sets; SaveSetsNext is the loop
\* after the save `r` of its first set.
RECURSIVE SaveSets(_, _, _, _)
RECURSIVE SaveSetsNext(_, _, _, _)
SaveSets(sets, set_names, root_path, root_entries) ==
    IF set_names = << >>
    THEN Saved(None, root_entries)
    ELSE SaveSetsNext(Set_save(sets[Head(set_names)], Head(set_names), root_path,
                               root_entries),
                      sets, set_names, root_path)

SaveSetsNext(r, sets, set_names, root_path) ==
    IF r.err # None
    THEN SaveError(r, "SaveSet", Head(set_names))
    ELSE SaveSets(sets, Tail(set_names), root_path, r.entries)

\* A cleanup that keeps what the directory held.
RootKept(node) == IF is_dir(node) THEN node.entries ELSE EmptyMap

\* if path.exists() { remove_dir_all(path) }; create_dir(path): the entries
\* of the root directory the sets are then written into.
RootCleaned(node) == EmptyMap

\* Fontgarden::save to `path`, where `node` is: what was there is removed,
\* the directory is made anew and the sets are written into it.
Fontgarden_save(sets, path, node) ==
    SaveSets(sets, Sorted(DOMAIN sets, SetNameOrder), path, RootCleaned(node))

(***************************************************************************)
(* structs.rs: load.  read_dir lists a directory in no particular order,   *)
(* so a load that fails can fail with the error of any entry that can be   *)
(* the first bad one: a from_path operator gives the set of its possible   *)
(* results [err, value].                                                   *)
(***************************************************************************)
Loaded(value) == [err |-> None, value |-> value]

Failed(error) == [err |-> Some(error), value |-> EmptyMap]

\* The glyph files of a layer directory.
GlifFiles(entries) ==
    {f \in DOMAIN entries : is_file(entries[f]) /\ Extension(f) = Some(Str_glif)}

\* The ways to keep one key per name when several keys carry the same name
\* (a map insert replaces the entry of an equal name; which one comes last
\* depends on the order of the listing).
\* name_of maps each key to its name.
Picks(name_of) ==
    {p \in [{name_of[k] : k \in DOMAIN name_of} -> DOMAIN name_of] :
        \A n \in DOMAIN p : name_of[p[n]] = n}

\* The ways to take one result per key; results maps each key to the set of
\* its results.
Choices(results) ==
    {c \in [DOMAIN results -> UNION {results[k] : k \in DOMAIN results}] :
        \A k \in DOMAIN results : c[k] \in results[k]}

\* Layer::from_path: the layer and the name of its layerinfo.plist.
Layer_from_path(node, file_name) ==
    LET entries == node.entries
        color_marks == load_color_marks(entries)
        glifs == GlifFiles(entries)
    IN  IF color_marks.err # None
        THEN {Failed([kind |-> "LoadColorMarks"])}
        ELSE IF \/ Str_layerinfo_plist \notin DOMAIN entries
                \/ ~is_file(entries[Str_layerinfo_plist])
                \/ entries[Str_layerinfo_plist].content.format # "plist"
        THEN {Failed([kind |-> "LoadLayerInfo"])}
        ELSE IF \E f \in glifs : entries[f].content.format # "glif"
        THEN {Failed([kind |-> "LoadGlyph"])}
        ELSE {Loaded([name |-> entries[Str_layerinfo_plist].content.name,
                      layer |-> Layer([n \in DOMAIN p |-> entries[p[n]].content.glyph],
                                      color_marks.value,
                                      file_name = Str_glyphs)]) :
                 p \in Picks([f \in glifs |-> entries[f].content.name])}

\* The layer directories of a source directory.
LayerDirs(entries) ==
    {f \in DOMAIN entries :
        is_dir(entries[f]) /\ (f = Str_glyphs \/ starts_with(f, Str_glyphs_dot))}

\* The layers of a source whose layer directories loaded as `c`.
SourceLayers(c) ==
    {[n \in DOMAIN p |-> c[p[n]].value.layer] :
        p \in Picks([f \in DOMAIN c |-> c[f].value.name])}

\* Source::from_path
Source_from_path(node) ==
    LET entries == node.entries
        dirs == LayerDirs(entries)
        Results(f) == Layer_from_path(entries[f], f)
        bad == {f \in dirs : \E r \in Results(f) : r.err # None}
    IN  IF bad # {}
        THEN UNION {{Failed([kind |-> "LoadLayer", cause |-> r.err[1]]) :
                        r \in Results(f)} : f \in bad}
        ELSE IF Str_glyphs \notin dirs
        THEN {Failed([kind |-> "NoDefaultLayer"])}
        ELSE UNION {{Loaded(layers) : layers \in SourceLayers(c)} :
                       c \in Choices([f \in dirs |-> Results(f)])}

\* The source directories of a set directory.
SourceDirs(entries) ==
    {f \in DOMAIN entries : is_dir(entries[f]) /\ strip_prefix(f, Str_source) # None}

\* Set::from_path
Set_from_path(node) ==
    LET entries == node.entries
        glyph_data == load_glyph_data(entries)
        dirs == SourceDirs(entries)
        Named(f) == Name_new(strip_prefix(f, Str_source)[1])
        Results(f) == Source_from_path(entries[f])
        unnamed == {f \in dirs : Named(f) = None}
        bad == {f \in dirs \ unnamed : \E r \in Results(f) : r.err # None}
    IN  IF glyph_data.err # None
        THEN {Failed([kind |-> "LoadGlyphData", cause |-> glyph_data.err[1]])}
        ELSE IF unnamed \cup bad # {}
        THEN {Failed([kind |-> "NamingError"]) : f \in unnamed}
             \cup UNION {{Failed([kind |-> "LoadSource", name |-> Named(f)[1],
                                  cause |-> r.err[1]]) : r \in Results(f)} :
                            f \in bad}
        ELSE {Loaded([glyph_data |-> glyph_data.value,
                      sources |-> [n \in {Named(f)[1] : f \in dirs} |->
                                      c[Str_source \o Chars[n]].value]]) :
                 c \in Choices([f \in dirs |-> Results(f)])}

\* A load that reports the whole coverage of the set being loaded.
overlapping_coverageWhole(seen_glyph_names, coverage) ==
    IF seen_glyph_names \cap coverage = {} THEN {} ELSE coverage

\* The glyph names of the set being loaded that were seen in an earlier set.
overlapping_coverage(seen_glyph_names, coverage) ==
    seen_glyph_names \cap coverage

\* The loop of Fontgarden::from_path over the entries of the root, listed
\* in the order `order`.
RECURSIVE LoadSets(_, _, _, _)
LoadSets(entries, order, seen_glyph_names, sets) ==
    IF order = << >>
    THEN {Loaded(sets)}
    ELSE LET file_name == Head(order)
             stripped == strip_prefix(file_name, Str_set)
         IN  IF ~is_dir(entries[file_name]) \/ stripped = None
             THEN LoadSets(entries, Tail(order), seen_glyph_names, sets)
             ELSE IF Name_new(stripped[1]) = None
             THEN {Failed([kind |-> "NamingError"])}
             ELSE LET set_name == Name_new(stripped[1])[1]
                  IN  UNION {
                        IF r.err # None
                        THEN {Failed([kind |-> "LoadSet", name |-> set_name,
                                      cause |-> r.err[1]])}
                        ELSE LET coverage == glyph_coverage(r.value)
                             IN  IF overlapping_coverage(seen_glyph_names, coverage) # {}
                                 THEN {Failed([kind |-> "DuplicateGlyphs",
                                               name |-> set_name,
                                               glyphs |-> overlapping_coverage(
                                                   seen_glyph_names, coverage)])}
                                 ELSE LoadSets(entries, Tail(order),
                                               seen_glyph_names \cup coverage,
                                               (set_name :> r.value) @@ sets)
                        : r \in Set_from_path(entries[file_name])}

\* The orders read_dir can list the entries of the root in.
ReadDirOrders(node) ==
    IF is_dir(node) THEN Orders(DOMAIN node.entries) ELSE {<< >>}

\* Fontgarden::from_path when read_dir lists the root in the order `order`.
FontgardenFromPathInOrder(node, order) ==
    IF ~is_dir(node)
    THEN {Failed([kind |-> "NotAFontgarden"])}
    ELSE LoadSets(node.entries, order, {}, EmptyMap)

\* Fontgarden::from_path
Fontgarden_from_path(node) ==
    UNION {FontgardenFromPathInOrder(node, order) : order \in ReadDirOrders(node)}

(***************************************************************************)
(* The state machine: a Fontgarden in memory, created empty, and the       *)
(* operations called on it.  `last` records the call that just returned:   *)
(* its arguments, the Fontgarden before it, and its result.  Return drops  *)
(* the record; the next call starts from there (the record is history, no  *)
(* call reads it).                                                         *)
(***************************************************************************)
NoOp == [op |-> "idle"]

\* The path the Fontgarden is saved to and loaded from.
RootPath == <<"g", "a", "r", "d", "e", "n">>

Init ==
    /\ fontgarden = EmptyMap
    /\ disk = NoPath
    /\ last = NoOp
    /\ imports = 0
    /\ imported = {}
    /\ closure = [pc |-> "idle"]
    /\ edits = 0
    /\ naming = [pc |-> "idle"]

Import ==
    /\ last = NoOp
    /\ imports < MaxImports
    /\ \E font \in Fonts, glyphs \in SUBSET GlyphNames,
          set_name \in SetNames, source_name \in SourceNames :
        LET assert_ok == ImportAssertHolds(fontgarden, font, glyphs, set_name,
                                           source_name)
        IN  /\ fontgarden' = IF assert_ok
                             THEN import(fontgarden, font, glyphs, set_name,
                                         source_name)
                             ELSE fontgarden
            /\ last' = [op |-> "import", before |-> fontgarden, font |-> font,
                        glyphs |-> glyphs, set_name |-> set_name,
                        source_name |-> source_name,
                        expanded |-> ExpandGlyphs(font, 1, glyphs),
                        result |-> IF assert_ok THEN "Ok" ELSE "panic"]
            /\ imported' = imported \cup {[font |-> font, source_name |-> source_name]}
    /\ imports' = imports + 1
    /\ UNCHANGED <<disk, closure, edits, naming>>

Export ==
    /\ last = NoOp
    /\ \E glyph_names \in SUBSET GlyphNames, source_names \in SUBSET SourceNames :
        \E source_order \in
                Orders(DOMAIN assemble_sources(fontgarden, source_names)) :
            last' = [op |-> "export", glyph_names |-> glyph_names,
                     source_names |-> source_names,
                     source_order |-> source_order,
                     status |-> IF ExportPanics(fontgarden, glyph_names,
                                                source_names, source_order)
                                THEN "panic" ELSE "Ok",
                     result |-> export(fontgarden, glyph_names, source_names,
                                       source_order)]
    /\ UNCHANGED <<fontgarden, disk, imports, imported, closure, edits, naming>>

Return ==
    /\ last # NoOp
    /\ last.op # "saving"
    /\ last' = NoOp
    /\ UNCHANGED <<fontgarden, disk, imports, imported, closure, edits, naming>>

Next == Import \/ Export \/ Return

Spec == Init /\ [][Next]_vars

(***************************************************************************)
(* The Fontgarden with its directory: imports in memory, save to RootPath  *)
(* and load from it.  A load that succeeds gives the Fontgarden the        *)
(* program goes on with.                                                   *)
(***************************************************************************)
Save ==
    /\ last = NoOp
    /\ LET r == Fontgarden_save(fontgarden, RootPath, disk)
       IN  /\ disk' = Dir(r.entries)
           /\ last' = [op |-> "save", before |-> fontgarden, root |-> disk,
                       err |-> r.err]
    /\ UNCHANGED <<fontgarden, imports, imported, closure, edits, naming>>

Load ==
    /\ last = NoOp
    /\ \E order \in ReadDirOrders(disk) :
        \E r \in FontgardenFromPathInOrder(disk, order) :
            /\ last' = [op |-> "load", before |-> fontgarden, order |-> order,
                        err |-> r.err, result |-> r.value]
            /\ fontgarden' = IF r.err = None THEN r.value ELSE fontgarden
    /\ UNCHANGED <<disk, imports, imported, closure, edits, naming>>

NextStore == Import \/ Save \/ Load \/ Return

SpecStore == Init /\ [][NextStore]_vars

(***************************************************************************)
(* The directory is a tree of text files kept under version control: its   *)
(* files are also changed outside the program.  The changes modelled: a    *)
(* row of one set's glyph_data.csv is copied into another set's, a set      *)
(* directory is renamed, a glyph_data.csv is deleted, and a glyph_data.csv  *)
(* is rewritten without its export column.  At most MaxEdits changes are    *)
(* made.                                                                   *)
(***************************************************************************)
MaxEdits == 1

SetDirName(set_name) == Str_set \o Chars[set_name]

\* The set directory of set_name exists and holds a glyph_data.csv.
HasGlyphData(node, set_name) ==
    /\ is_dir(node)
    /\ SetDirName(set_name) \in DOMAIN node.entries
    /\ Str_glyph_data_csv \in DOMAIN node.entries[SetDirName(set_name)].entries

GlyphDataFile(node, set_name) ==
    node.entries[SetDirName(set_name)].entries[Str_glyph_data_csv].content

\* The entries of a directory without the one called file_name.
Without(entries, file_name) ==
    [f \in DOMAIN entries \ {file_name} |-> entries[f]]

EditCopyRow ==
    /\ last = NoOp
    /\ edits < MaxEdits
    /\ \E from \in SetNames, to \in SetNames :
        /\ from # to
        /\ HasGlyphData(disk, from)
        /\ HasGlyphData(disk, to)
        /\ \E i \in DOMAIN GlyphDataFile(disk, from).rows :
            disk' = [disk EXCEPT
                        !.entries[SetDirName(to)].entries[Str_glyph_data_csv].content.rows =
                            Append(@, GlyphDataFile(disk, from).rows[i])]
    /\ edits' = edits + 1
    /\ UNCHANGED <<fontgarden, last, imports, imported, closure, naming>>

EditRenameSet ==
    /\ last = NoOp
    /\ edits < MaxEdits
    /\ is_dir(disk)
    /\ \E from \in SetNames, to \in SetNames :
        /\ SetDirName(from) \in DOMAIN disk.entries
        /\ SetDirName(to) \notin DOMAIN disk.entries
        /\ disk' = Dir((SetDirName(to) :> disk.entries[SetDirName(from)])
                       @@ Without(disk.entries, SetDirName(from)))
    /\ edits' = edits + 1
    /\ UNCHANGED <<fontgarden, last, imports, imported, closure, naming>>

EditRemoveGlyphData ==
    /\ last = NoOp
    /\ edits < MaxEdits
    /\ \E set_name \in SetNames :
        /\ HasGlyphData(disk, set_name)
        /\ disk' = [disk EXCEPT !.entries[SetDirName(set_name)].entries =
                                    Without(@, Str_glyph_data_csv)]
    /\ edits' = edits + 1
    /\ UNCHANGED <<fontgarden, last, imports, imported, closure, naming>>

EditDropExportColumn ==
    /\ last = NoOp
    /\ edits < MaxEdits
    /\ \E set_name \in SetNames :
        /\ HasGlyphData(disk, set_name)
        /\ disk' = [disk EXCEPT
                       !.entries[SetDirName(set_name)].entries[Str_glyph_data_csv].content =
                           [@ EXCEPT !.header = SubSeq(@, 1, 4),
                                     !.rows = [i \in DOMAIN @ |-> SubSeq(@[i], 1, 4)]]]
    /\ edits' = edits + 1
    /\ UNCHANGED <<fontgarden, last, imports, imported, closure, naming>>

NextDisk ==
    \/ Import \/ Save \/ Load \/ Return
    \/ EditCopyRow \/ EditRenameSet \/ EditRemoveGlyphData \/ EditDropExportColumn

SpecDisk == Init /\ [][NextDisk]_vars

(***************************************************************************)
(* The closure machine: glyphset_follow_composites run one step at a time  *)
(* on any seed set and any component function over GlyphNames.  The seeds  *)
(* are visited in any order (a HashSet's iteration order).                 *)
(***************************************************************************)
ComponentLists == UNION {[1..n -> GlyphNames] : n \in 0..MaxComponents}

InitClose ==
    /\ fontgarden = EmptyMap
    /\ disk = NoPath
    /\ last = NoOp
    /\ imports = 0
    /\ imported = {}
    /\ edits = 0
    /\ naming = [pc |-> "idle"]
    /\ \E import_glyphs \in SUBSET GlyphNames,
          components_in_glyph \in [GlyphNames -> ComponentLists] :
        closure = [pc |-> "for",
                   import_glyphs |-> import_glyphs,
                   components_in_glyph |-> components_in_glyph,
                   discovered |-> import_glyphs,
                   stack |-> << >>,
                   todo |-> import_glyphs,
                   calls |-> [n \in GlyphNames |-> 0]]

\* for name in import_glyphs.iter() { stack.extend(components_in_glyph(name)) ...
CloseNextSeed ==
    /\ closure.pc = "for"
    /\ \E name \in closure.todo :
        closure' = [closure EXCEPT
                        !.pc = "while",
                        !.todo = @ \ {name},
                        !.stack = @ \o closure.components_in_glyph[name],
                        !.calls[name] = @ + 1]
    /\ UNCHANGED <<fontgarden, disk, last, imports, imported, edits, naming>>

\* while let Some(component) = stack.pop() { ... }
ClosePop ==
    /\ closure.pc = "while"
    /\ closure.stack # << >>
    /\ LET component == closure.stack[Len(closure.stack)]
           s == PopStep(closure.stack, closure.discovered,
                        closure.components_in_glyph)
       IN  closure' = [closure EXCEPT
                           !.stack = s.stack,
                           !.discovered = s.discovered,
                           !.calls[component] =
                               IF component \in closure.discovered THEN @ ELSE @ + 1]
    /\ UNCHANGED <<fontgarden, disk, last, imports, imported, edits, naming>>

\* The stack ran empty: assert!(stack.is_empty()) and on to the next seed.
CloseEndSeed ==
    /\ closure.pc = "while"
    /\ closure.stack = << >>
    /\ closure' = [closure EXCEPT !.pc = "for"]
    /\ UNCHANGED <<fontgarden, disk, last, imports, imported, edits, naming>>

\* The seeds are used up: return discovered_glyphs.
CloseReturn ==
    /\ closure.pc = "for"
    /\ closure.todo = {}
    /\ closure' = [closure EXCEPT !.pc = "done"]
    /\ UNCHANGED <<fontgarden, disk, last, imports, imported, edits, naming>>

NextClose == CloseNextSeed \/ ClosePop \/ CloseEndSeed \/ CloseReturn

SpecClose == InitClose /\ [][NextClose]_vars

\* The function runs on: a step that can be taken is taken.
SpecCloseFair == InitClose /\ [][NextClose]_vars /\ WF_vars(NextClose)

(***************************************************************************)
(* Fontgarden::save one file system call at a time, and a crash of the      *)
(* process between two of them.  While a save runs, last.op = "saving" and  *)
(* last holds its position: pc, the sets still to write and the sources     *)
(* still to write of the set being written.  A source is written in one     *)
(* step.                                                                   *)
(***************************************************************************)
\* A save that leaves the old root in place until the sets are written.
RemoveLater(node) == node

\* if path.exists() { std::fs::remove_dir_all(path) }
remove_dir_all(node) == NoPath

SaveRemove ==
    /\ last = NoOp
    /\ disk' = remove_dir_all(disk)
    /\ last' = [op |-> "saving", pc |-> "create", before |-> fontgarden,
                root |-> disk,
                sets |-> Sorted(DOMAIN fontgarden, SetNameOrder),
                sources |-> << >>]
    /\ UNCHANGED <<fontgarden, imports, imported, closure, edits, naming>>

\* std::fs::create_dir(path)
SaveCreateDir ==
    /\ last.op = "saving"
    /\ last.pc = "create"
    /\ disk' = Dir(EmptyMap)
    /\ last' = [last EXCEPT !.pc = "sets"]
    /\ UNCHANGED <<fontgarden, imports, imported, closure, edits, naming>>

\* Set::save: std::fs::create_dir(&set_path)
SaveSetDir ==
    /\ last.op = "saving"
    /\ last.pc = "sets"
    /\ last.sets # << >>
    /\ disk' = Dir((SetDirName(Head(last.sets)) :> Dir(EmptyMap)) @@ disk.entries)
    /\ last' = [last EXCEPT !.pc = "glyph_data"]
    /\ UNCHANGED <<fontgarden, imports, imported, closure, edits, naming>>

\* Set::save: Self::write_glyph_data
SaveGlyphData ==
    /\ last.op = "saving"
    /\ last.pc = "glyph_data"
    /\ LET set_name == Head(last.sets)
       IN  /\ disk' = [disk EXCEPT !.entries[SetDirName(set_name)].entries =
                        (Str_glyph_data_csv :>
                            write_glyph_data(last.before[set_name].glyph_data)) @@ @]
           /\ last' = [last EXCEPT !.pc = "sources",
                          !.sources = Sorted(DOMAIN last.before[set_name].sources,
                                             SourceNameOrder)]
    /\ UNCHANGED <<fontgarden, imports, imported, closure, edits, naming>>

\* Set::save: one round of the loop over self.sources.
SaveSource ==
    /\ last.op = "saving"
    /\ last.pc = "sources"
    /\ last.sources # << >>
    /\ LET set_name == Head(last.sets)
           source_name == Head(last.sources)
           r == Source_save(last.before[set_name].sources[source_name], source_name,
                            PathJoin(RootPath, SetDirName(set_name)),
                            disk.entries[SetDirName(set_name)].entries)
       IN  /\ disk' = [disk EXCEPT !.entries[SetDirName(set_name)].entries = r.entries]
           /\ last' = IF r.err = None
                      THEN [last EXCEPT !.sources = Tail(@)]
                      ELSE [op |-> "save", before |-> last.before, root |-> last.root,
                            err |-> r.err]
    /\ UNCHANGED <<fontgarden, imports, imported, closure, edits, naming>>

\* Set::save returns: the next round of the loop over self.sets.
SaveSetDone ==
    /\ last.op = "saving"
    /\ last.pc = "sources"
    /\ last.sources = << >>
    /\ last' = [last EXCEPT !.pc = "sets", !.sets = Tail(@)]
    /\ UNCHANGED <<fontgarden, disk, imports, imported, closure, edits, naming>>

\* Fontgarden::save returns Ok(()).
SaveFinish ==
    /\ last.op = "saving"
    /\ last.pc = "sets"
    /\ last.sets = << >>
    /\ last' = [op |-> "save", before |-> last.before, root |-> last.root,
                err |-> None]
    /\ UNCHANGED <<fontgarden, disk, imports, imported, closure, edits, naming>>

\* The process dies between two steps of a save: the directory stays as it
\* is.
Crash ==
    /\ last.op = "saving"
    /\ last' = [last EXCEPT !.op = "crashed"]
    /\ UNCHANGED <<fontgarden, disk, imports, imported, closure, edits, naming>>

NextCrash ==
    \/ Import \/ Load \/ Return
    \/ SaveRemove \/ SaveCreateDir \/ SaveSetDir \/ SaveGlyphData \/ SaveSource
    \/ SaveSetDone \/ SaveFinish \/ Crash

SpecCrash == Init /\ [][NextCrash]_vars

(***************************************************************************)
(* Names on disk.  Three jobs, drawn by InitNames: a call of               *)
(* user_name_to_file_name, run statement by statement (naming.pc = "push", *)
(* "test", "count"); the save of one layer and its load; the save of one   *)
(* source and its load.  Glyph and layer names are drawn from NamingNames: *)
(* names that differ only in case, names with an illegal character and     *)
(* with the underscore it is replaced by, and a reserved name.             *)
(***************************************************************************)
NamingNames == {"A", "a", "a_", "A_", "A:", "a:", "con"}

MaxNamedGlyphs == 2

MaxNamedLayers == 2

\* The lowercased stems the names in `existing` are made of.
ExistingStems == {<<"a">>, <<"a", "_">>, <<"a", "_", "_">>, <<"_", "c", "o", "n">>}

DecimalDigits == {"0", "1", "2", "3", "4", "5", "6", "7", "8", "9"}

\* The two-digit numbers 01 to 99 as texts.
AllNumbers == {<<d1, d2>> : d1 \in DecimalDigits, d2 \in DecimalDigits} \ {<<"0", "0">>}

\* The sets of numbers taken in `existing`.
NumberSets ==
    {{}, {<<"0", "1">>}, {<<"0", "2">>}, {<<"0", "1">>, <<"0", "2">>},
     AllNumbers, AllNumbers \ {<<"5", "0">>}, AllNumbers \ {<<"9", "9">>}}

\* A set of lowercased file names: the plain one when `plain`, and the
\* numbered ones.
ExistingNames(prefix, stem, suffix, plain, numbers) ==
    {prefix \o stem \o number \o suffix : number \in numbers}
    \cup (IF plain THEN {prefix \o stem \o suffix} ELSE {})

\* The glyph of the naming jobs that is called glyph_name: no two alike.
NamedGlyph(glyph_name, layer_name) ==
    [outline |-> <<glyph_name, layer_name>>, components |-> << >>,
     markColor |-> NoMarkColor, codepoints |-> << >>]

NamedLayer(glyph_names, layer_name, default) ==
    Layer([g \in glyph_names |-> NamedGlyph(g, layer_name)], EmptyMap, default)

\* A source with the default layer "fore" and the layers layer_names, each
\* holding the glyph "A".
NamedSource(layer_names) ==
    [l \in layer_names \cup {"fore"} |-> NamedLayer({"A"}, l, l = "fore")]

SourcePath == PathJoin(RootPath, Str_source \o Chars["Bold"])

InitNames ==
    /\ fontgarden = EmptyMap
    /\ disk = NoPath
    /\ last = NoOp
    /\ imports = 0
    /\ imported = {}
    /\ closure = [pc |-> "idle"]
    /\ edits = 0
    /\ \/ \E name \in NamingNames, stem \in ExistingStems, plain \in BOOLEAN,
             numbers \in NumberSets, layer \in BOOLEAN :
            LET prefix == IF layer THEN Str_glyphs_dot ELSE << >>
                suffix == IF layer THEN << >> ELSE Str_dot_glif
            IN  naming = [pc |-> "push", name |-> name, prefix |-> prefix,
                          suffix |-> suffix,
                          existing |-> ExistingNames(prefix, stem, suffix, plain, numbers)]
       \/ \E glyph_names \in SUBSET NamingNames :
            /\ Cardinality(glyph_names) \in 1..MaxNamedGlyphs
            /\ naming = [pc |-> "layer",
                         layer |-> NamedLayer(glyph_names, "fore", TRUE)]
       \/ \E layer_names \in SUBSET NamingNames :
            /\ Cardinality(layer_names) \in 1..MaxNamedLayers
            /\ naming = [pc |-> "source", source |-> NamedSource(layer_names)]

\* A test for clashes that compares the names as they are.
ClashesExactly(result, existing) == result \in existing

\* existing.contains(&result.to_lowercase())
Clashes(result, existing) == to_lowercase(result) \in existing

\* result.push_str(prefix) up to result.push_str(suffix)
FileNamePush ==
    /\ naming.pc = "push"
    /\ naming' = [pc |-> "test", name |-> naming.name, prefix |-> naming.prefix,
                  suffix |-> naming.suffix, existing |-> naming.existing,
                  result |-> TrailingUnderscores(
                                 Clip(Reserve(PushName(naming.prefix, Chars[naming.name])),
                                      naming.suffix),
                                 naming.suffix) \o naming.suffix]
    /\ UNCHANGED <<fontgarden, disk, last, imports, imported, closure, edits>>

\* The test for clashes: return the name, or cut the suffix off and start
\* counting.
FileNameTest ==
    /\ naming.pc = "test"
    /\ naming' = IF Clashes(naming.result, naming.existing)
                 THEN [naming EXCEPT !.pc = "count",
                                     !.result = FileNameCut(naming.result, naming.suffix)]
                      @@ [counter |-> 1, taken |-> naming.result]
                 ELSE [naming EXCEPT !.pc = "done"] @@ [taken |-> << >>]
    /\ UNCHANGED <<fontgarden, disk, last, imports, imported, closure, edits>>

\* One round of `for counter in 1..100u8`.
FileNameCount ==
    /\ naming.pc = "count"
    /\ naming.counter < 100
    /\ LET candidate == naming.result \o Format02(naming.counter) \o naming.suffix
       IN  naming' = IF ~Clashes(candidate, naming.existing)
                     THEN [naming EXCEPT !.pc = "done", !.result = candidate]
                     ELSE [naming EXCEPT !.counter = @ + 1,
                              !.result = SubSeq(candidate, 1,
                                  saturating_sub(Len(candidate), Len(naming.suffix))
                                      - NUMBER_LEN)]
    /\ UNCHANGED <<fontgarden, disk, last, imports, imported, closure, edits>>

\* if !found_unique { panic!(...) }
FileNameGiveUp ==
    /\ naming.pc = "count"
    /\ naming.counter = 100
    /\ naming' = [naming EXCEPT !.pc = "panic"]
    /\ UNCHANGED <<fontgarden, disk, last, imports, imported, closure, edits>>

\* Layer::save of the default layer into an empty source directory.
LayerSave ==
    /\ naming.pc = "layer"
    /\ naming' = [pc |-> "layer saved", layer |-> naming.layer,
                  saved |-> Layer_save(naming.layer, "fore", SourcePath, EmptyMap, {})]
    /\ UNCHANGED <<fontgarden, disk, last, imports, imported, closure, edits>>

\* Layer::from_path of the directory LayerSave made.
LayerLoad ==
    /\ naming.pc = "layer saved"
    /\ naming.saved.err = None
    /\ \E r \in Layer_from_path(naming.saved.entries[Str_glyphs], Str_glyphs) :
        naming' = [pc |-> "layer loaded", layer |-> naming.layer,
                   saved |-> naming.saved, loaded |-> r]
    /\ UNCHANGED <<fontgarden, disk, last, imports, imported, closure, edits>>

\* Source::save into an empty set directory.
SourceSave ==
    /\ naming.pc = "source"
    /\ naming' = [pc |-> "source saved", source |-> naming.source,
                  saved |-> Source_save(naming.source, "Bold", RootPath, EmptyMap)]
    /\ UNCHANGED <<fontgarden, disk, last, imports, imported, closure, edits>>

\* The source directory is changed outside the program: the layerinfo.plist
\* of one layer directory is given the name of a layer of the source.
SourceRenameLayerInfo ==
    /\ naming.pc = "source saved"
    /\ naming.saved.err = None
    /\ \E d \in LayerDirs(naming.saved.entries[Str_source \o Chars["Bold"]].entries),
          layer_name \in DOMAIN naming.source :
        naming' = [pc |-> "source edited", source |-> naming.source,
                   saved |-> [naming.saved EXCEPT
                       !.entries[Str_source \o Chars["Bold"]].entries[d]
                           .entries[Str_layerinfo_plist].content.name = layer_name]]
    /\ UNCHANGED <<fontgarden, disk, last, imports, imported, closure, edits>>

\* The source directory is changed outside the program: one layer directory
\* is removed.
SourceRemoveLayerDir ==
    /\ naming.pc = "source saved"
    /\ naming.saved.err = None
    /\ \E d \in LayerDirs(naming.saved.entries[Str_source \o Chars["Bold"]].entries) :
        naming' = [pc |-> "source edited", source |-> naming.source,
                   saved |-> [naming.saved EXCEPT
                       !.entries[Str_source \o Chars["Bold"]].entries = Without(@, d)]]
    /\ UNCHANGED <<fontgarden, disk, last, imports, imported, closure, edits>>

\* Source::from_path of the directory SourceSave made, as it was saved
\* ("source loaded") or after it was changed ("source reloaded").
SourceLoad ==
    /\ naming.pc \in {"source saved", "source edited"}
    /\ naming.saved.err = None
    /\ \E r \in Source_from_path(naming.saved.entries[Str_source \o Chars["Bold"]]) :
        naming' = [pc |-> IF naming.pc = "source saved"
                          THEN "source loaded" ELSE "source reloaded",
                   source |-> naming.source,
                   saved |-> naming.saved, loaded |-> r]
    /\ UNCHANGED <<fontgarden, disk, last, imports, imported, closure, edits>>

NextNames ==
    \/ FileNamePush \/ FileNameTest \/ FileNameCount \/ FileNameGiveUp
    \/ LayerSave \/ LayerLoad \/ SourceSave \/ SourceLoad
    \/ SourceRenameLayerInfo \/ SourceRemoveLayerDir

SpecNames == InitNames /\ [][NextNames]_vars

(***************************************************************************)
(* Reserved and long names.  A call of user_name_to_file_name, run         *)
(* statement by statement as above, for a glyph or a layer whose name is   *)
(* a reserved device name or close to one, or about MAX_LEN long; the set  *)
(* `existing` is empty, or holds the lowercased plain file name, alone or  *)
(* with numbered ones.                                                     *)
(***************************************************************************)
LongNames == DOMAIN ReservedChars \cup DOMAIN LongChars \cup {"a", "con"}

\* The sets of numbers taken in `existing` besides the plain name.
LongNumberSets == {{}, {<<"0", "1">>}, AllNumbers \ {<<"5", "0">>}, AllNumbers}

InitLongNames ==
    /\ fontgarden = EmptyMap
    /\ disk = NoPath
    /\ last = NoOp
    /\ imports = 0
    /\ imported = {}
    /\ closure = [pc |-> "idle"]
    /\ edits = 0
    /\ \E name \in LongNames, layer \in BOOLEAN :
        LET prefix == IF layer THEN Str_glyphs_dot ELSE << >>
            suffix == IF layer THEN << >> ELSE Str_dot_glif
            plain == to_lowercase(FileNameUnnumbered(name, prefix, suffix))
            stem == FileNameCut(plain, suffix)
        IN  \E existing \in {{}} \cup {ExistingNames(<< >>, stem, suffix, FALSE, numbers)
                                          \cup {plain} : numbers \in LongNumberSets} :
                naming = [pc |-> "push", name |-> name, prefix |-> prefix,
                          suffix |-> suffix, existing |-> existing]

NextLongNames == FileNamePush \/ FileNameTest \/ FileNameCount \/ FileNameGiveUp

SpecLongNames == InitLongNames /\ [][NextLongNames]_vars

(***************************************************************************)
(* The code-point field of a glyph_data.csv row: a row is loaded, written  *)
(* and loaded again.  InitParse draws the field: up to MaxTokens tokens    *)
(* with one kind of white space between them.  A token comes with the code *)
(* point it stands for, NoCodepoint when it stands for none.               *)
(***************************************************************************)
MaxTokens == 3

NoCodepoint == -1

CodepointTokens ==
    {[text |-> <<"4", "1">>, value |-> 65],
     [text |-> <<"0", "0", "4", "1">>, value |-> 65],
     [text |-> <<"e", "9">>, value |-> 233],
     [text |-> <<"0", "0", "E", "9">>, value |-> 233],
     [text |-> <<"1", "F", "6", "0", "0">>, value |-> 128512],
     [text |-> <<"+", "4", "1">>, value |-> NoCodepoint],
     [text |-> <<"G">>, value |-> NoCodepoint],
     [text |-> <<"D", "8", "0", "0">>, value |-> NoCodepoint],
     [text |-> <<"1", "1", "0", "0", "0", "0">>, value |-> NoCodepoint]}

Separators == {<<" ">>, <<" ", " ">>, <<"\t">>}

\* The tokens with the separator between them.
RECURSIVE Joined(_, _)
Joined(tokens, separator) ==
    IF tokens = << >> THEN << >>
    ELSE IF Len(tokens) = 1 THEN tokens[1].text
    ELSE tokens[1].text \o separator \o Joined(Tail(tokens), separator)

\* The row of the glyph "A" with the code-point field v.
RowOf(v) == <<"A", "", v, "", "true">>

InitParse ==
    /\ fontgarden = EmptyMap
    /\ disk = NoPath
    /\ last = NoOp
    /\ imports = 0
    /\ imported = {}
    /\ closure = [pc |-> "idle"]
    /\ edits = 0
    /\ \E n \in 0..MaxTokens :
        \E tokens \in [1..n -> CodepointTokens], separator \in Separators :
            naming = [pc |-> "row", tokens |-> tokens,
                      v |-> Joined(tokens, separator)]

\* One round of the loop of Set::load_glyph_data.
LoadRow ==
    /\ naming.pc = "row"
    /\ naming' = [pc |-> "row loaded", tokens |-> naming.tokens, v |-> naming.v,
                  err |-> GlyphDataRowError(RowOf(naming.v)),
                  record |-> IF GlyphDataRowError(RowOf(naming.v)) = None
                             THEN Some(GlyphDataRecord(RowOf(naming.v)))
                             ELSE None]
    /\ UNCHANGED <<fontgarden, disk, last, imports, imported, closure, edits>>

\* One round of the loop of Set::write_glyph_data.
WriteRow ==
    /\ naming.pc = "row loaded"
    /\ naming.err = None
    /\ naming' = [pc |-> "row written", tokens |-> naming.tokens, v |-> naming.v,
                  record |-> naming.record,
                  row |-> GlyphDataRow("A", naming.record[1])]
    /\ UNCHANGED <<fontgarden, disk, last, imports, imported, closure, edits>>

\* The written row is loaded.
ReloadRow ==
    /\ naming.pc = "row written"
    /\ naming' = [pc |-> "row reloaded", tokens |-> naming.tokens, v |-> naming.v,
                  record |-> naming.record, row |-> naming.row,
                  err |-> GlyphDataRowError(naming.row),
                  again |-> IF GlyphDataRowError(naming.row) = None
                            THEN Some(GlyphDataRecord(naming.row))
                            ELSE None]
    /\ UNCHANGED <<fontgarden, disk, last, imports, imported, closure, edits>>

NextParse == LoadRow \/ WriteRow \/ ReloadRow

SpecParse == InitParse /\ [][NextParse]_vars

(***************************************************************************)
(* Helpers of the properties.                                              *)
(***************************************************************************)
Imported == last.op = "import" /\ last.result = "Ok"

\* The sets of `sets` whose coverage holds glyph g.
Owners(sets, g) == {s \in DOMAIN sets : g \in glyph_coverage(sets[s])}

\* The names D holds a glyph for, in any layer.
GlyphsOfFont(font) ==
    UNION {DOMAIN font.layers[i].glyphs : i \in 1..Len(font.layers)}

(***************************************************************************)
(* C1  Save/load round-trip: for every Fontgarden F reachable from the     *)
(* empty one by imports, save(F, root) succeeds, and load(root) of what    *)
(* save wrote succeeds and returns a Fontgarden equal to F.                *)
(***************************************************************************)
SaveLoadRoundTrip ==
    /\ last.op = "save" => last.err = None
    /\ (last.op = "load" /\ disk = Dir(Fontgarden_save(last.before, RootPath, NoPath).entries))
          => (last.err = None /\ last.result = last.before)

(***************************************************************************)
(* C3  Coverage disjointness: after any sequence of imports into the empty *)
(* Fontgarden, the coverages of every two distinct sets are disjoint.      *)
(***************************************************************************)
CoverageDisjoint ==
    \A a \in DOMAIN fontgarden, b \in DOMAIN fontgarden :
        a # b => glyph_coverage(fontgarden[a]) \cap glyph_coverage(fontgarden[b]) = {}

\* An import asked for a set other than the one already owning a glyph, and
\* two non-empty sets exist afterwards.
CoverageDisjointWitness ==
    /\ Imported
    /\ \E g \in last.expanded :
          Owners(last.before, g) # {} /\ last.set_name \notin Owners(last.before, g)
    /\ \E a \in DOMAIN fontgarden, b \in DOMAIN fontgarden :
          /\ a # b
          /\ glyph_coverage(fontgarden[a]) # {}
          /\ glyph_coverage(fontgarden[b]) # {}

(***************************************************************************)
(* C4  Default-layer invariant: every Source of every Set has exactly one  *)
(* layer flagged default, the assertion of import never fails, and a       *)
(* Source created by an import starts from one empty default layer (named  *)
(* after the document's default layer).                                    *)
(***************************************************************************)
NewSourceShape(font) ==
    LET source == new_with_default_layer_name(default_layer(font).name)
    IN  /\ Cardinality(DOMAIN source) = 1
        /\ \A l \in DOMAIN source :
              /\ source[l].default
              /\ DOMAIN source[l].glyphs = {}
              /\ DOMAIN source[l].color_marks = {}

DefaultLayerInvariant ==
    /\ \A s \in DOMAIN fontgarden :
          \A src \in DOMAIN fontgarden[s].sources :
              DefaultLayerCount(fontgarden[s].sources[src]) = 1
    /\ last.op = "import" => last.result = "Ok" /\ NewSourceShape(last.font)

\* An import into a Source that existed before (the assertion ran on a
\* Source built by earlier imports) which now has a second, non-default layer.
DefaultLayerWitness ==
    /\ Imported
    /\ \E s \in DOMAIN last.before :
          /\ last.source_name \in DOMAIN last.before[s].sources
          /\ last.expanded \cap glyph_coverage(last.before[s]) # {}
          /\ Cardinality(DOMAIN fontgarden[s].sources[last.source_name]) >= 2

(***************************************************************************)
(* C9  Import routing, first-registered-set wins: a glyph of the expanded  *)
(* set that some set owned before the import is owned by the same set and  *)
(* no other afterwards; a glyph nobody owned is owned by the target set    *)
(* afterwards (created when new); import returns no error.                 *)
(***************************************************************************)
RoutingFirstSetWins ==
    last.op = "import" =>
        /\ last.result = "Ok"
        /\ \A g \in last.expanded :
              IF Owners(last.before, g) # {}
              THEN Owners(fontgarden, g) = Owners(last.before, g)
              ELSE Owners(fontgarden, g) = {last.set_name}

\* One import that both routes a glyph to its owner, a set other than the
\* target, and creates the target set for a glyph nobody owned.
RoutingWitness ==
    /\ Imported
    /\ last.set_name \notin DOMAIN last.before
    /\ \E g \in last.expanded : Owners(last.before, g) # {}
    /\ \E g \in last.expanded : Owners(last.before, g) = {}
    /\ last.set_name \in DOMAIN fontgarden

(***************************************************************************)
(* C10  Metadata is always refreshed on reimport: after an import, every   *)
(* glyph of the expanded set has, in the set owning it, the record         *)
(* extracted from the imported document.                                   *)
(***************************************************************************)
MetadataRefreshed ==
    Imported =>
        \A g \in last.expanded :
            \A s \in Owners(fontgarden, g) :
                /\ g \in DOMAIN fontgarden[s].glyph_data
                /\ fontgarden[s].glyph_data[g]
                       = extract_glyph_data(last.font, last.expanded)[g]

(***************************************************************************)
(* C5  Idempotent reimport: importing the same document with the same      *)
(* glyphs, set and source a second time changes nothing.                   *)
(***************************************************************************)
ReimportIdempotent ==
    Imported =>
        import(fontgarden, last.font, last.glyphs, last.set_name, last.source_name)
            = fontgarden

(***************************************************************************)
(* C8  Import pulls in the full composite closure: for every imported      *)
(* glyph and every layer of the document holding it, each component that   *)
(* the document holds is imported too.                                     *)
(***************************************************************************)
ImportClosed ==
    Imported =>
        \A i \in 1..Len(last.font.layers) :
            \A g \in last.expanded \cap DOMAIN last.font.layers[i].glyphs :
                \A k \in 1..Len(last.font.layers[i].glyphs[g].components) :
                    LET c == last.font.layers[i].glyphs[g].components[k]
                    IN  c \in GlyphsOfFont(last.font) => c \in last.expanded

(***************************************************************************)
(* C6  Closure is a superset and is closed: the result of                  *)
(* glyphset_follow_composites(S, c) contains S, contains every component   *)
(* of each of its names, and holds only names reachable from S through c;  *)
(* it is the same whatever order the seeds are visited in.                 *)
(***************************************************************************)
Range(seq) == {seq[i] : i \in 1..Len(seq)}

\* The names reachable from R through c (a function from names to sets of
\* names), by fixed-point iteration: the smallest superset of R closed under c.
RECURSIVE Reachable(_, _)
Reachable(R, c) ==
    LET next == R \cup UNION {c[g] : g \in R}
    IN  IF next = R THEN R ELSE Reachable(next, c)

ClosureSupersetClosed ==
    closure.pc = "done" =>
        /\ closure.import_glyphs \subseteq closure.discovered
        /\ \A g \in closure.discovered :
              Range(closure.components_in_glyph[g]) \subseteq closure.discovered
        /\ closure.discovered
              \subseteq Reachable(closure.import_glyphs,
                                  [g \in GlyphNames |->
                                      Range(closure.components_in_glyph[g])])
        /\ closure.discovered
              = glyphset_follow_composites(closure.import_glyphs,
                                           closure.components_in_glyph)

\* A finished run that found a component of a component: a name that is
\* no seed and no direct component of a seed.
ClosureWitness ==
    /\ closure.pc = "done"
    /\ \E g \in closure.discovered \ closure.import_glyphs :
          \A seed \in closure.import_glyphs :
              g \notin Range(closure.components_in_glyph[seed])

(***************************************************************************)
(* C7  Export yields exactly the closed glyph set: with C the smallest     *)
(* superset of the requested names closed under the component references  *)
(* of every assembled layer of every requested source, each output layer   *)
(* holds exactly the glyphs of its assembled layer that are in C.          *)
(***************************************************************************)
Exported == last.op = "export" /\ last.status = "Ok"

\* The components of name g in any layer of any assembled source.
AssembledComponents(assembled) ==
    [g \in GlyphNames |->
        UNION {UNION {Range(ComponentsInLayer(assembled[s][l])[g]) :
                         l \in DOMAIN assembled[s]} : s \in DOMAIN assembled}]

\* The glyph names of the layer called layer_name of an output document.
UfoLayerGlyphs(ufo, layer_name) ==
    UNION {DOMAIN ufo[i].glyphs : i \in UfoLayerIndex(ufo, layer_name)}

ExportExactlyClosed ==
    Exported =>
        LET assembled == assemble_sources(fontgarden, last.source_names)
            C == Reachable(last.glyph_names, AssembledComponents(assembled))
        IN  \A s \in DOMAIN assembled :
                /\ s \in DOMAIN last.result
                /\ \A l \in DOMAIN assembled[s] :
                      UfoLayerGlyphs(last.result[s], l)
                          = DOMAIN assembled[s][l].glyphs \cap C

(***************************************************************************)
(* C2  Import/export round-trip: when every glyph of a document D was      *)
(* imported under one source name S (over one or more imports, into any    *)
(* target sets) and nothing else was imported, export of all of D's glyph  *)
(* names for S returns one document, for S, whose layers are D's non-empty *)
(* layers, holding D's glyphs.  As claimed: each glyph equals the original.*)
(***************************************************************************)
\* The repository holds exactly document D, imported under source S, and the
\* last call exported all of D's glyph names for S.
RoundTripCase(D, S) ==
    /\ Exported
    /\ imported = {[font |-> D, source_name |-> S]}
    /\ GlyphsOfFont(D) \subseteq UNION {glyph_coverage(fontgarden[s]) : s \in DOMAIN fontgarden}
    /\ last.glyph_names = GlyphsOfFont(D)
    /\ last.source_names = {S}

\* The output document has D's non-empty layers and their glyph names.
SameLayers(D, ufo) ==
    /\ {ufo[i].name : i \in {j \in 1..Len(ufo) : ufo[j].glyphs # EmptyMap}}
          = {D.layers[i].name : i \in {j \in 1..Len(D.layers) : D.layers[j].glyphs # EmptyMap}}
    /\ \A i \in 1..Len(D.layers) :
          UfoLayerGlyphs(ufo, D.layers[i].name) = DOMAIN D.layers[i].glyphs
    /\ D.layers[1].glyphs # EmptyMap => ufo[1].name = D.layers[1].name

ExportImportRoundTrip ==
    \A D \in Fonts, S \in SourceNames :
        RoundTripCase(D, S) =>
            /\ DOMAIN last.result = {S}
            /\ SameLayers(D, last.result[S])
            /\ \A i \in 1..Len(D.layers) :
                  \A j \in UfoLayerIndex(last.result[S], D.layers[i].name) :
                      \A g \in DOMAIN D.layers[i].glyphs :
                          last.result[S][j].glyphs[g] = D.layers[i].glyphs[g]

\* The same, each glyph being equal to the original up to the text encoding
\* of its mark colour: the exported mark colour is the original's, rounded
\* (scrub_colors of the tests).
scrub_colors(glyph) ==
    IF glyph.markColor # NoMarkColor
    THEN [glyph EXCEPT !.markColor = to_rgba_string(Color_from_str(@))]
    ELSE glyph

ExportImportRoundTripScrubbed ==
    \A D \in Fonts, S \in SourceNames :
        RoundTripCase(D, S) =>
            /\ DOMAIN last.result = {S}
            /\ SameLayers(D, last.result[S])
            /\ \A i \in 1..Len(D.layers) :
                  \A j \in UfoLayerIndex(last.result[S], D.layers[i].name) :
                      \A g \in DOMAIN D.layers[i].glyphs :
                          /\ last.result[S][j].glyphs[g]
                                = scrub_colors(D.layers[i].glyphs[g])
                          /\ to_rgba_string(Color_from_str(D.layers[i].glyphs[g].markColor))
                                = D.layers[i].glyphs[g].markColor
                             => last.result[S][j].glyphs[g] = D.layers[i].glyphs[g]

\* A round trip of a document with two layers and a marked glyph, its glyphs
\* split over two sets.
ExportImportWitness ==
    \E D \in Fonts, S \in SourceNames :
        /\ RoundTripCase(D, S)
        /\ Cardinality(DOMAIN fontgarden) = 2
        /\ \A s \in DOMAIN fontgarden :
              \E l \in DOMAIN fontgarden[s].sources[S] :
                  fontgarden[s].sources[S][l].glyphs # EmptyMap
        /\ \E i \in 1..Len(D.layers) : \E g \in DOMAIN D.layers[i].glyphs :
              D.layers[i].glyphs[g].markColor # NoMarkColor
        /\ Len(last.result[S]) = 2

(***************************************************************************)
(* C11  Reimport replaces glyphs by name: after an import, every glyph of   *)
(* the expanded set that the document holds in its default layer is held   *)
(* by the default layer of the imported source in the set owning it, and    *)
(* the glyph exported from that layer (the stored glyph with the layer's    *)
(* colour mark written back) is the document's glyph.  Stated up to the     *)
(* text encoding of the mark colour, which import rounds.                   *)
(***************************************************************************)
ReimportReplacesGlyphs ==
    Imported =>
        \A g \in last.expanded \cap DOMAIN default_layer(last.font).glyphs :
            \A s \in Owners(fontgarden, g) :
                /\ last.source_name \in DOMAIN fontgarden[s].sources
                /\ LET source == fontgarden[s].sources[last.source_name]
                       layer == source[DefaultLayerName(source)]
                   IN  /\ g \in DOMAIN layer.glyphs
                       /\ export_glyph(layer, g)
                             = scrub_colors(default_layer(last.font).glyphs[g])

(***************************************************************************)
(* C12  Two imports of the same glyph from two different documents into    *)
(* the same set under two different source names, starting from the empty  *)
(* Fontgarden, give a Set with exactly two Sources, each with exactly one   *)
(* default layer, which holds the glyph, and exactly one metadata record    *)
(* for the glyph: that of the document imported last.                       *)
(***************************************************************************)
\* The last call was the second of the two imports of glyph g.
TwoSourcesCase(g, D1, D2, T, S1, S2) ==
    /\ Imported
    /\ D1 # D2 /\ S1 # S2
    /\ g \in DOMAIN default_layer(D1).glyphs \cap DOMAIN default_layer(D2).glyphs
    /\ last.before = import(EmptyMap, D1, {g}, T, S1)
    /\ last.font = D2 /\ last.glyphs = {g}
    /\ last.set_name = T /\ last.source_name = S2

TwoSourcesOneRecord ==
    \A g \in GlyphNames, D1 \in Fonts, D2 \in Fonts, T \in SetNames,
       S1 \in SourceNames, S2 \in SourceNames :
        TwoSourcesCase(g, D1, D2, T, S1, S2) =>
            /\ DOMAIN fontgarden = {T}
            /\ DOMAIN fontgarden[T].sources = {S1, S2}
            /\ \A S \in {S1, S2} :
                  /\ DefaultLayerCount(fontgarden[T].sources[S]) = 1
                  /\ g \in DOMAIN fontgarden[T].sources[S][
                                      DefaultLayerName(fontgarden[T].sources[S])].glyphs
            /\ g \in DOMAIN fontgarden[T].glyph_data
            /\ fontgarden[T].glyph_data[g] = extract_glyph_data(D2, {g})[g]

(***************************************************************************)
(* C13  Export omits empty sources: the mapping export returns has an      *)
(* entry for a source name only if a glyph of that source survives the     *)
(* pruning in some layer; no output document is empty.                     *)
(***************************************************************************)
ExportOmitsEmptySources ==
    Exported =>
        LET sources == PrunedSources(fontgarden, last.glyph_names, last.source_names,
                                     last.source_order)
        IN  \A s \in DOMAIN last.result :
                /\ \E l \in DOMAIN sources[s] : sources[s][l].glyphs # EmptyMap
                /\ \E i \in 1..Len(last.result[s]) : last.result[s][i].glyphs # EmptyMap

(***************************************************************************)
(* C14  The default layer is always present, even if empty, across         *)
(* persistence: when some Source of the Fontgarden has a default layer      *)
(* without glyphs, save succeeds, the load of what it wrote succeeds, and   *)
(* every loaded Source still has its default layer.                         *)
(***************************************************************************)
\* The (set, source) pairs of F whose default layer holds no glyphs.
EmptyDefaultLayers(F) ==
    {p \in (DOMAIN F) \X SourceNames :
        /\ p[2] \in DOMAIN F[p[1]].sources
        /\ \E l \in DOMAIN F[p[1]].sources[p[2]] :
              /\ F[p[1]].sources[p[2]][l].default
              /\ F[p[1]].sources[p[2]][l].glyphs = EmptyMap}

DefaultLayerPersists ==
    /\ (last.op = "save" /\ EmptyDefaultLayers(last.before) # {}) => last.err = None
    /\ (/\ last.op = "load"
        /\ EmptyDefaultLayers(last.before) # {}
        /\ disk = Dir(Fontgarden_save(last.before, RootPath, NoPath).entries))
          => /\ last.err = None
             /\ \A s \in DOMAIN last.before :
                   /\ s \in DOMAIN last.result
                   /\ \A n \in DOMAIN last.before[s].sources :
                         /\ n \in DOMAIN last.result[s].sources
                         /\ \A l \in DOMAIN last.before[s].sources[n] :
                               last.before[s].sources[n][l].default
                                   => /\ l \in DOMAIN last.result[s].sources[n]
                                      /\ last.result[s].sources[n][l].default

(***************************************************************************)
(* C15: load rejects overlapping sets.                                     *)
(***************************************************************************)
\* The set directories of a root directory.
SetDirs(node) ==
    {f \in DOMAIN node.entries :
        is_dir(node.entries[f]) /\ strip_prefix(f, Str_set) # None}

\* Every set directory of the root has a valid name and loads on its own.
AllSetsLoadable(node) ==
    \A f \in SetDirs(node) :
        /\ Name_new(strip_prefix(f, Str_set)[1]) # None
        /\ \A r \in Set_from_path(node.entries[f]) : r.err = None

\* The coverage of the set directory f.
DirCoverage(node, f) ==
    UNION {glyph_coverage(r.value) : r \in Set_from_path(node.entries[f])}

\* The set directories listed before the directory of set_name.
ListedBefore(node, order, set_name) ==
    {order[i] : i \in {i \in DOMAIN order :
        /\ order[i] \in SetDirs(node)
        /\ \E j \in DOMAIN order : i < j /\ order[j] = SetDirName(set_name)}}

CoveragesOverlap(node) ==
    \E f \in SetDirs(node), g \in SetDirs(node) :
        f # g /\ DirCoverage(node, f) \cap DirCoverage(node, g) # {}

IsDuplicateGlyphs(err) == err # None /\ err[1].kind = "DuplicateGlyphs"

\* C15: when every set directory of the root loads on its own, a load fails
\* with the duplicate-glyph error, and returns no Fontgarden, exactly when the
\* coverages of two set directories intersect; the error names the set being
\* loaded when the overlap is found and carries exactly the glyph names its
\* coverage shares with the sets listed before it; a successful load returns
\* sets with pairwise disjoint coverages.
LoadRejectsOverlap ==
    (last.op = "load" /\ is_dir(disk) /\ AllSetsLoadable(disk)) =>
        /\ CoveragesOverlap(disk) <=> IsDuplicateGlyphs(last.err)
        /\ last.err # None => IsDuplicateGlyphs(last.err)
        /\ IsDuplicateGlyphs(last.err) =>
            LET e == last.err[1]
                before == ListedBefore(disk, last.order, e.name)
            IN  /\ last.result = EmptyMap
                /\ fontgarden = last.before
                /\ SetDirName(e.name) \in SetDirs(disk)
                /\ e.glyphs # {}
                /\ e.glyphs = DirCoverage(disk, SetDirName(e.name))
                                \cap UNION {DirCoverage(disk, f) : f \in before}
                /\ \A f \in before, g \in before :
                    f # g => DirCoverage(disk, f) \cap DirCoverage(disk, g) = {}
        /\ last.err = None =>
            /\ fontgarden = last.result
            /\ \A s \in DOMAIN last.result, t \in DOMAIN last.result :
                s # t => glyph_coverage(last.result[s])
                           \cap glyph_coverage(last.result[t]) = {}

\* A load of a root where one set shares a part of its coverage with the set
\* listed before it.
LoadRejectsOverlapWitness ==
    /\ last.op = "load"
    /\ is_dir(disk)
    /\ AllSetsLoadable(disk)
    /\ IsDuplicateGlyphs(last.err)
    /\ last.err[1].glyphs # DirCoverage(disk, SetDirName(last.err[1].name))

(***************************************************************************)
(* C16: save replaces the target completely.                               *)
(***************************************************************************)
\* Everything the loaded Fontgarden G holds is in F: its sets, their
\* sources, their layers and the glyphs of these.
HoldsOnlyWhatIsIn(G, F) ==
    \A s \in DOMAIN G :
        /\ s \in DOMAIN F
        /\ DOMAIN G[s].glyph_data \subseteq DOMAIN F[s].glyph_data
        /\ \A src \in DOMAIN G[s].sources :
            /\ src \in DOMAIN F[s].sources
            /\ \A l \in DOMAIN G[s].sources[src] :
                /\ l \in DOMAIN F[s].sources[src]
                /\ \A g \in DOMAIN G[s].sources[src][l].glyphs :
                    /\ g \in DOMAIN F[s].sources[src][l].glyphs
                    /\ G[s].sources[src][l].glyphs[g] = F[s].sources[src][l].glyphs[g]

\* C16: after a successful save of F onto a root, whatever the root held
\* before, the root holds exactly the directories and files that a save of F
\* onto a path that did not exist writes, one set directory per set of F, so
\* a following load returns no set, source, layer or glyph that is not in F.
SaveReplaces ==
    (last.op = "save" /\ last.err = None) =>
        /\ disk = Dir(Fontgarden_save(last.before, RootPath, NoPath).entries)
        /\ DOMAIN disk.entries = {SetDirName(s) : s \in DOMAIN last.before}
        /\ \A r \in Fontgarden_from_path(disk) :
            r.err = None => HoldsOnlyWhatIsIn(r.value, last.before)

\* A successful save onto a root that held a set directory F has no set for.
SaveReplacesWitness ==
    /\ last.op = "save"
    /\ last.err = None
    /\ is_dir(last.root)
    /\ \E f \in SetDirs(last.root) : f \notin {SetDirName(s) : s \in DOMAIN last.before}
    /\ \E r \in Fontgarden_from_path(disk) : r.err = None /\ r.value # EmptyMap

(***************************************************************************)
(* C17: glyph file names never collide within a layer.                     *)
(***************************************************************************)
\* The files of the saved layer directory that hold the glyph glyph_name.
GlyphFilesOf(entries, glyph_name) ==
    {f \in GlifFiles(entries) : entries[f].content.name = glyph_name}

\* C17: a saved layer has a glyph file for each of its glyphs, the files of
\* two different glyph names have names that differ even when compared
\* without regard to case, and a load of the directory gives the layer's
\* glyphs back.
GlyphFileNamesDistinct ==
    /\ naming.pc \in {"layer saved", "layer loaded"} =>
        /\ naming.saved.err = None
        /\ LET entries == naming.saved.entries[Str_glyphs].entries
               names == DOMAIN naming.layer.glyphs
           IN  /\ \A g \in names : GlyphFilesOf(entries, g) # {}
               /\ \A g \in names, h \in names :
                    g # h => \A f \in GlyphFilesOf(entries, g),
                                k \in GlyphFilesOf(entries, h) :
                                    to_lowercase(f) # to_lowercase(k)
    /\ naming.pc = "layer loaded" =>
        /\ naming.loaded.err = None
        /\ naming.loaded.value.layer.glyphs = naming.layer.glyphs

(***************************************************************************)
(* C18: layer directory names never collide within a source.               *)
(***************************************************************************)
\* The layer directories of the saved source whose layerinfo.plist names
\* the layer layer_name.
LayerDirsOf(entries, layer_name) ==
    {f \in LayerDirs(entries) :
        /\ Str_layerinfo_plist \in DOMAIN entries[f].entries
        /\ entries[f].entries[Str_layerinfo_plist].content.name = layer_name}

\* C18: the save of a source succeeds; each of its layers that is not the
\* default one gets a directory of its own, whose name differs from
\* "glyphs" and from the other layers' directories even when compared
\* without regard to case; and a load gives every layer back under its
\* logical name.
LayerDirNamesDistinct ==
    /\ naming.pc \in {"source saved", "source loaded"} =>
        /\ naming.saved.err = None
        /\ LET entries == naming.saved.entries[Str_source \o Chars["Bold"]].entries
               names == {l \in DOMAIN naming.source : ~naming.source[l].default}
           IN  /\ \A l \in names :
                    /\ LayerDirsOf(entries, l) # {}
                    /\ \A f \in LayerDirsOf(entries, l) :
                        to_lowercase(f) # Str_glyphs
               /\ \A l \in names, k \in names :
                    l # k => \A f \in LayerDirsOf(entries, l),
                                d \in LayerDirsOf(entries, k) :
                                    to_lowercase(f) # to_lowercase(d)
    /\ naming.pc = "source loaded" =>
        /\ naming.loaded.err = None
        /\ naming.loaded.value = naming.source

(***************************************************************************)
(* C19: naming collision resolution.                                       *)
(***************************************************************************)
\* The plain candidate with the number n before the suffix.
Numbered(plain, suffix, n) ==
    SubSeq(plain, 1, Len(plain) - Len(suffix)) \o Format02(n) \o suffix

\* C19: the name returned is not in `existing` when lowercased; it is the
\* plain candidate when that is free, else the candidate with the smallest
\* free number from 01 to 99 before the suffix ("A_01.glif" for the glyph
\* name "A" when existing = {"a_.glif"}); the call panics only when the
\* plain candidate and all 99 numbered ones are taken, and the counter never
\* passes 100.
FileNameResolved ==
    LET plain == FileNameUnnumbered(naming.name, naming.prefix, naming.suffix)
        Taken(n) == to_lowercase(Numbered(plain, naming.suffix, n)) \in naming.existing
    IN  /\ naming.pc = "done" =>
            /\ to_lowercase(naming.result) \notin naming.existing
            /\ to_lowercase(plain) \notin naming.existing => naming.result = plain
            /\ to_lowercase(plain) \in naming.existing =>
                \E n \in 1..99 :
                    /\ naming.result = Numbered(plain, naming.suffix, n)
                    /\ \A k \in 1..(n - 1) : Taken(k)
            /\ naming.result = user_name_to_file_name(naming.name, naming.prefix,
                                                      naming.suffix, naming.existing)
            /\ (/\ naming.name = "A"
                /\ naming.suffix = Str_dot_glif
                /\ naming.existing = {<<"a", "_", ".", "g", "l", "i", "f">>})
                => naming.result = <<"A", "_", "0", "1", ".", "g", "l", "i", "f">>
        /\ naming.pc = "count" => naming.counter \in 1..100
        /\ naming.pc = "panic" =>
            /\ to_lowercase(plain) \in naming.existing
            /\ \A n \in 1..99 : Taken(n)
            /\ FileNamePanics(naming.name, naming.prefix, naming.suffix, naming.existing)

\* A call that returns the candidate numbered 50: the plain candidate and
\* the numbers 01 to 49 are taken.
FileNameResolvedWitness ==
    /\ naming.pc = "done"
    /\ naming.taken # << >>
    /\ naming.counter = 50
    /\ {<<"a", "_", ".", "g", "l", "i", "f">>,
        <<"a", "_", "4", "9", ".", "g", "l", "i", "f">>} \subseteq naming.existing
    /\ naming.result = <<"A", "_", "5", "0", ".", "g", "l", "i", "f">>

\* A call that panics.
FileNamePanicWitness ==
    /\ naming.pc = "panic"
    /\ Cardinality(naming.existing) = 100

(***************************************************************************)
(* C20: the export flag defaults to true.                                  *)
(***************************************************************************)
\* The set directory holds no glyph_data.csv.
GlyphDataAbsent(entries) == Str_glyph_data_csv \notin DOMAIN entries

\* The set directory holds a glyph_data.csv whose table is the one
\* write_glyph_data writes without its last column, export.
ExportColumnAbsent(entries) ==
    /\ ~GlyphDataAbsent(entries)
    /\ is_file(entries[Str_glyph_data_csv])
    /\ LET table == entries[Str_glyph_data_csv].content
       IN  /\ table.format = "csv"
           /\ Len(table.header) = 4
           /\ table.rows # << >>
           /\ \A i \in DOMAIN table.rows :
                /\ Len(table.rows[i]) = 4
                /\ GlyphDataRowError(table.rows[i] \o <<"true">>) = None

\* C20: a set directory without glyph_data.csv, or with a glyph_data.csv
\* whose rows have no export column, loads: load_glyph_data succeeds, every
\* record of the table has export = true, and a load of the root does not
\* fail on the glyph data of that set.
ExportDefaultsToTrue ==
    (last.op = "load" /\ is_dir(disk)) =>
        \A f \in SetDirs(disk) :
            LET entries == disk.entries[f].entries
                r == load_glyph_data(entries)
            IN  (GlyphDataAbsent(entries) \/ ExportColumnAbsent(entries)) =>
                    /\ r.err = None
                    /\ \A g \in DOMAIN r.value : r.value[g].export
                    /\ ExportColumnAbsent(entries) =>
                        DOMAIN r.value =
                            {entries[Str_glyph_data_csv].content.rows[i][1] :
                                i \in DOMAIN entries[Str_glyph_data_csv].content.rows}
                    /\ ~(/\ last.err # None
                         /\ last.err[1].kind = "LoadSet"
                         /\ SetDirName(last.err[1].name) = f
                         /\ last.err[1].cause.kind = "LoadGlyphData")

(***************************************************************************)
(* C21: save is not crash-atomic.                                          *)
(***************************************************************************)
\* The tree `a` holds nothing but files and directories of the tree `b`.
RECURSIVE PartOf(_, _)
PartOf(a, b) ==
    IF ~is_dir(a)
    THEN a = b
    ELSE /\ is_dir(b)
         /\ \A f \in DOMAIN a.entries :
                f \in DOMAIN b.entries /\ PartOf(a.entries[f], b.entries[f])

\* What a save of F that runs to its end leaves at the root.
SavedRoot(F) == Dir(Fontgarden_save(F, RootPath, NoPath).entries)

\* The save has made its last file system call.
NothingLeftToWrite ==
    \/ last.pc = "sets" /\ last.sets = << >>
    \/ last.pc = "sources" /\ last.sources = << >> /\ Len(last.sets) = 1

\* C21: from the first step of a save to its last, and after a crash between
\* two steps, the root is missing or holds a part of the new Fontgarden's
\* files and nothing else: the previous contents are gone after the first
\* step and the new ones are incomplete until the last; a save that runs to
\* its end leaves what Fontgarden::save leaves.
SaveNotAtomic ==
    /\ last.op \in {"saving", "crashed"} =>
        /\ disk = NoPath \/ PartOf(disk, SavedRoot(last.before))
        /\ disk # SavedRoot(last.before) \/ NothingLeftToWrite
        /\ last.pc = "create" <=> disk = NoPath
    /\ (last.op = "save" /\ last.err = None) => disk = SavedRoot(last.before)

\* A crash that leaves a part of the new Fontgarden where a loadable
\* Fontgarden with other contents was.
SaveNotAtomicWitness ==
    /\ last.op = "crashed"
    /\ is_dir(last.root)
    /\ \E r \in Fontgarden_from_path(last.root) : r.err = None /\ r.value # EmptyMap
    /\ is_dir(disk)
    /\ disk.entries # EmptyMap
    /\ ~NothingLeftToWrite
    /\ disk # SavedRoot(last.before)
    /\ ~PartOf(last.root, disk)

(***************************************************************************)
(* C22: the closure terminates on every finite component graph.            *)
(***************************************************************************)
\* The component graph of a run of the closure.
ComponentGraph == [g \in GlyphNames |-> Range(closure.components_in_glyph[g])]

\* The names that are their own component, directly or through others.
OnCycle == {g \in GlyphNames : g \in Reachable(ComponentGraph[g], ComponentGraph)}

\* C22: every run of glyphset_follow_composites returns, whether or not the
\* component graph has cycles; components_in_glyph is called at most once for
\* a name; at the return the stack is empty and the result is the set of the
\* names reachable from the seeds.
ClosureTerminates ==
    /\ <>(closure.pc = "done")
    /\ [](\A n \in GlyphNames : closure.calls[n] <= 1)
    /\ [](closure.pc = "done" =>
            /\ closure.stack = << >>
            /\ closure.todo = {}
            /\ closure.discovered = Reachable(closure.import_glyphs, ComponentGraph))

\* A finished run over a graph with a cycle that was entered.
ClosureTerminatesWitness ==
    /\ closure.pc = "done"
    /\ \E g \in OnCycle \cap closure.discovered :
        /\ g \notin Range(closure.components_in_glyph[g])
        /\ closure.calls[g] = 1

(***************************************************************************)
(* C23: hanging components are silently dropped.                           *)
(***************************************************************************)
\* The component names of D's glyphs for which D holds no glyph.
HangingComponents(font) ==
    UNION {UNION {Range(font.layers[i].glyphs[g].components) :
                     g \in DOMAIN font.layers[i].glyphs} :
              i \in 1..Len(font.layers)}
        \ GlyphsOfFont(font)

\* C23: an import of glyphs with a component that D holds no glyph for
\* succeeds; the component's name is not in the expanded glyph set, unless it
\* was requested, and the import makes neither a glyph nor a metadata record
\* for it: a set that did not cover the name before does not cover it after.
HangingComponentsDropped ==
    Imported =>
        \A h \in HangingComponents(last.font) \ last.glyphs :
            /\ h \notin last.expanded
            /\ \A s \in DOMAIN fontgarden :
                h \in glyph_coverage(fontgarden[s]) =>
                    s \in DOMAIN last.before /\ h \in glyph_coverage(last.before[s])

(***************************************************************************)
(* C24: a loaded source has exactly one default layer.                     *)
(***************************************************************************)
\* C24: the load of a source directory without a "glyphs" directory fails
\* with the no-default-layer error; the load of one with a "glyphs"
\* directory, whatever names its layerinfo.plist files declare and in
\* whatever order the directories are read, gives a source with exactly one
\* layer flagged default.
LoadedSourceHasOneDefault ==
    naming.pc \in {"source loaded", "source reloaded"} =>
        LET dirs == LayerDirs(naming.saved.entries[Str_source \o Chars["Bold"]].entries)
        IN  /\ Str_glyphs \notin dirs =>
                /\ naming.loaded.err # None
                /\ naming.loaded.err[1].kind = "NoDefaultLayer"
            /\ Str_glyphs \in dirs =>
                /\ naming.loaded.err = None
                /\ DefaultLayerCount(naming.loaded.value) = 1

(***************************************************************************)
(* C25: code-point parsing dedupes and preserves order.                    *)
(***************************************************************************)
\* The place of the first token that stands for the code point c.
FirstToken(tokens, c) ==
    CHOOSE i \in DOMAIN tokens :
        tokens[i].value = c /\ \A j \in 1..(i - 1) : tokens[j].value # c

\* `codepoints` lists the code points of the tokens once each, in the order
\* of their first tokens.
InOrderOfFirstOccurrence(codepoints, tokens) ==
    /\ Range(codepoints) = {tokens[i].value : i \in DOMAIN tokens}
    /\ \A i \in DOMAIN codepoints, j \in DOMAIN codepoints :
        i < j => FirstToken(tokens, codepoints[i]) < FirstToken(tokens, codepoints[j])

\* C25: a code-point field whose tokens are all hexadecimal numbers of
\* characters loads as the code points in the order of their first
\* occurrence, every later duplicate removed; a field with a token that is
\* no hexadecimal number or no character fails with the error that carries
\* the glyph name and the field's text; the loaded list, written and loaded
\* again, is the same list.
CodepointsParsed ==
    /\ naming.pc = "row loaded" =>
        IF \A i \in DOMAIN naming.tokens : naming.tokens[i].value # NoCodepoint
        THEN /\ naming.err = None
             /\ InOrderOfFirstOccurrence(naming.record[1].codepoints, naming.tokens)
        ELSE naming.err = Some([kind |-> "InvalidCodepoint", name |-> "A",
                                text |-> naming.v])
    /\ naming.pc = "row reloaded" =>
        /\ naming.err = None
        /\ naming.again[1].codepoints = naming.record[1].codepoints

(***************************************************************************)
(* C26: colour marks always belong to an existing glyph.                   *)
(***************************************************************************)
\* Every colour mark of every layer of the sources is the mark of a glyph of
\* that layer.
MarksBelong(sources) ==
    \A s \in DOMAIN sources : \A l \in DOMAIN sources[s] :
        DOMAIN sources[s][l].color_marks \subseteq DOMAIN sources[s][l].glyphs

\* The sources export assembles, and what its prune step leaves of them.
ExportAssembled == assemble_sources(fontgarden, last.source_names)

ExportPruned ==
    PrunedSources(fontgarden, last.glyph_names, last.source_names, last.source_order)

\* C26: in every Fontgarden reached by imports, and in every assembled layer
\* after the prune step of export, the names with a colour mark are names of
\* glyphs of the same layer.
ColorMarksBelong ==
    /\ \A set \in DOMAIN fontgarden : MarksBelong(fontgarden[set].sources)
    /\ last.op = "export" => MarksBelong(ExportPruned)

\* An export whose prune step takes a marked glyph out of a layer and leaves
\* a marked glyph in a layer.
ColorMarksBelongWitness ==
    /\ last.op = "export"
    /\ \E s \in DOMAIN ExportAssembled : \E l \in DOMAIN ExportAssembled[s] :
        \E g \in DOMAIN ExportAssembled[s][l].color_marks :
            g \notin DOMAIN ExportPruned[s][l].glyphs
    /\ \E s \in DOMAIN ExportPruned : \E l \in DOMAIN ExportPruned[s] :
        ExportPruned[s][l].color_marks # EmptyMap

(***************************************************************************)
(* C27: reserved device names are escaped.                                 *)
(***************************************************************************)
\* The name as the character loop leaves it: the prefix and the
\* transliterated name.
Transliterated == PushName(naming.prefix, Chars[naming.name])

\* C27: the file name user_name_to_file_name returns for a glyph name (no
\* prefix, suffix ".glif") or a layer name (prefix "glyphs.", no suffix)
\* never has a stem, the text before the first period, that is equal without
\* regard to case to con, prn, aux, nul, com1..com9 or lpt1..lpt9, whatever
\* names exist; when the stem of the transliterated name is one of them, the
\* name returned starts with an underscore followed by that stem.
ReservedNamesEscaped ==
    naming.pc = "done" =>
        /\ to_lowercase(Stem(naming.result)) \notin SPECIAL_RESERVED
        /\ Stem(Transliterated) \in SPECIAL_RESERVED =>
            starts_with(naming.result, <<"_">> \o Stem(Transliterated))

\* Calls that return an escaped name: the glyph name "con.alt" gives
\* "_con.alt.glif", and "com1", taken already, gives "_com101.glif".
ReservedNamesEscapedWitness ==
    /\ naming.pc = "done"
    /\ \/ /\ naming.name = "con.alt"
          /\ naming.result = <<"_", "c", "o", "n", ".", "a", "l", "t", ".", "g", "l", "i", "f">>
       \/ /\ naming.name = "com1"
          /\ naming.result = <<"_", "c", "o", "m", "1", "0", "1", ".", "g", "l", "i", "f">>

(***************************************************************************)
(* C28: file names are bounded.                                            *)
(***************************************************************************)
\* No character of the text is cut in two: a leading byte is followed by
\* its continuation byte, and a continuation byte follows a leading byte.
WholeCharacters(text) ==
    \A i \in 1..Len(text) :
        /\ text[i] = TwoBytes[1] => i < Len(text) /\ text[i + 1] = TwoBytes[2]
        /\ text[i] = TwoBytes[2] => i > 1 /\ text[i - 1] = TwoBytes[1]

\* C28: whenever user_name_to_file_name returns, the name returned (prefix,
\* stem, counter if any, suffix) is at most 255 long, also when the
\* underscore of a reserved name was prepended and when a counter was
\* appended, and no truncation has cut a character in two.
FileNameBounded ==
    /\ naming.pc = "done" =>
        /\ Len(naming.result) <= MAX_LEN
        /\ WholeCharacters(naming.result)
    /\ naming.pc \in {"test", "count"} => WholeCharacters(naming.result)

(***************************************************************************)
(* C29: import only adds or updates.                                       *)
(***************************************************************************)
\* Every metadata key, source, layer and glyph of the set `old` is in the
\* set `new`, and the layers have kept their default flags.
SetKept(old, new) ==
    /\ DOMAIN old.glyph_data \subseteq DOMAIN new.glyph_data
    /\ \A s \in DOMAIN old.sources :
        /\ s \in DOMAIN new.sources
        /\ \A l \in DOMAIN old.sources[s] :
            /\ l \in DOMAIN new.sources[s]
            /\ new.sources[s][l].default = old.sources[s][l].default
            /\ DOMAIN old.sources[s][l].glyphs \subseteq DOMAIN new.sources[s][l].glyphs

\* The sets an import has nothing to do with: not the target set, and no
\* glyph of the expanded set in their coverage.
Bystanders ==
    {s \in DOMAIN last.before :
        /\ s # last.set_name
        /\ glyph_coverage(last.before[s]) \cap last.expanded = {}}

\* C29: after every import call, every set, source, layer, glyph and metadata
\* key that was there before the call is still there, with the layers'
\* default flags unchanged; and every set that is not the target set and
\* whose coverage holds no glyph of the expanded set is exactly as before,
\* without a new Source.
ImportOnlyAdds ==
    last.op = "import" =>
        /\ \A s \in DOMAIN last.before :
            /\ s \in DOMAIN fontgarden
            /\ SetKept(last.before[s], fontgarden[s])
        /\ \A s \in Bystanders : fontgarden[s] = last.before[s]

\* An import that changes the Fontgarden, into a source that a set with
\* glyphs of its own, left alone by the import, does not have.
ImportOnlyAddsWitness ==
    /\ Imported
    /\ fontgarden # last.before
    /\ \E s \in Bystanders :
        /\ glyph_coverage(last.before[s]) # {}
        /\ last.source_name \notin DOMAIN last.before[s].sources

(***************************************************************************)
(* C30: the import of an empty request does nothing.                       *)
(***************************************************************************)
\* C30: an import with an empty set of requested glyphs returns success and
\* leaves the Fontgarden as it was: no target set and no Source is made; and
\* whatever is requested, the target set is made only when a glyph of the
\* expanded set is owned by no set.
EmptyImportIsNoOp ==
    last.op = "import" =>
        /\ last.glyphs = {} => last.result = "Ok" /\ fontgarden = last.before
        /\ (last.set_name \in DOMAIN fontgarden \ DOMAIN last.before) =>
            \E g \in last.expanded : Owners(last.before, g) = {}

\* An empty import into a Fontgarden that holds glyphs, naming a target set
\* and a source that the Fontgarden does not hold.
EmptyImportIsNoOpWitness ==
    /\ Imported
    /\ last.glyphs = {}
    /\ \E s \in DOMAIN last.before : glyph_coverage(last.before[s]) # {}
    /\ last.set_name \notin DOMAIN fontgarden
    /\ \A s \in DOMAIN fontgarden : last.source_name \notin DOMAIN fontgarden[s].sources
====
